---------------------------- MODULE Spec2Model ----------------------------
(***************************************************************************)
(* Verification model of the bf:: memory/container core.                   *)
(*                                                                         *)
(* Part 1: bf::DenseMap<T> (bifrost_dense_map.hpp) and DenseMapHandle<T>   *)
(* (bifrost_dense_map_handle.hpp).  The dense and the sparse array are     *)
(* bf::Array<T> objects; array position i of the C++ code is element i+1   *)
(* of the TLA+ sequence.                                                   *)
(***************************************************************************)
EXTENDS Integers, Sequences, FiniteSets, TLC

(***************************************************************************)
(* Bounds of the model (not program constants).                            *)
(***************************************************************************)
\* The client never holds more than MaxLive elements in the map.
MaxLive == 2
\* The client stops re-using a sparse slot whose generation reached MaxGen.
MaxGen == 2

\* Payload values the client stores.
Values == {10, 20}

(***************************************************************************)
(* Program constants (bifrost_dense_map_handle.hpp).                       *)
(***************************************************************************)
\* std::numeric_limits<std::uint16_t>::max()
INDEX_MASK == 65535
\* (1 << std::numeric_limits<IndexType>::digits)
ONE_PLUS_INDEX_TYPE_MAX == 65536
\* IndexType is std::uint16_t: a cast to IndexType is modulo 2^16.
IndexTypeModulus == 65536
\* IDType is std::uint32_t.  A 32 bit value is kept as the pair
\* <<high 16 bits, low 16 bits>>, so that arithmetic modulo 2^32 is exact:
\* <<1, 0>> is 0x0001_0000 and <<65535, 65535>> is 0xFFFF_FFFF.
HalfWordModulus == 65536

VARIABLES
  m_DenseArray,     \* Array<Proxy>: sequence of [data, id]
  m_SparseIndices,  \* Array<dense_map::Index>: sequence of [id, index, next]
  m_NextSparse,     \* head of the free chain, INDEX_MASK when empty
  ret,              \* the last call of the client and what it returned
  held,             \* client's book: handle -> value it passed to add
  kept,             \* one invalidated handle the client still keeps, and
                    \* how it was invalidated
  uses,             \* per sparse slot: how often add has used the slot
                    \* since the slot was created
  arrayCapacity,    \* elements the storage of each array has room for:
                    \* [dense, sparse]
  sizes,            \* the map by its sizes alone: [dense, sparse, free]
  sizesRet,         \* the last call on the map taken by its sizes
  pool,             \* PoolAllocatorImpl: its members and the block's memory
  poolRet,          \* the last call on the pool, its result, and the call
                    \* before it
  poolLive,         \* slots handed out and not yet given back
  freeList,         \* FreeListAllocator: its members and the block's headers
  freeListRet,      \* the last call on the free-list allocator and its result
  freeListLive,     \* payload addresses handed out and not yet given back
  stack,            \* StackAllocator: its members and the block's headers
  stackRet,         \* the last call on the stack allocator and its result
  stackLive,        \* blocks handed out and not yet given back, oldest first
  linear,           \* LinearAllocator: its members
  linearRet,        \* the last call on the bump arena and its result
  linearLive,       \* blocks handed out and not yet invalidated, oldest first
  linearScopes,     \* the LinearAllocatorScope objects alive, oldest first
  heap,             \* the arrays of the array API: header and elements, by
                    \* the address of the first element
  heapRet,          \* the last call of the array API and its result
  ring,             \* RingBufferImpl: capacity, buffer, head, tail
  ringRet,          \* the last call on the ring buffer and its result
  ringGhost,        \* the elements pushed and not yet popped or discarded, oldest first
  table,            \* HashTable: m_Table (the nodes by index) and m_Capacity
  tableRet,         \* the last call on the hash table and its result
  tableKeys,        \* the keys inserted and not removed since
  ctx,              \* bfJsonParserContext: the source, current_location, current_object.type
  control,          \* where bfJsonParser_fromString is: pc and the bfJsonInterpret calls in progress, innermost last
  events,           \* the events passed to the callback so far, oldest first
  temps,            \* the TempBuffer objects by name: alive or not, and their members
  tempHeap,         \* every buffer handed out by allocate, by address, and the deallocate calls made on it
  tempRet           \* the last call on a TempBuffer and what it deallocated

denseMapVars ==
  <<m_DenseArray, m_SparseIndices, m_NextSparse, ret, held, kept, uses,
    arrayCapacity>>

poolVars == <<pool, poolRet, poolLive>>

freeListVars == <<freeList, freeListRet, freeListLive>>

stackVars == <<stack, stackRet, stackLive>>

sizesVars == <<sizes, sizesRet>>

linearVars == <<linear, linearRet, linearLive, linearScopes>>

heapVars == <<heap, heapRet>>

ringVars == <<ring, ringRet, ringGhost>>

tableVars == <<table, tableRet, tableKeys>>

jsonVars == <<ctx, control, events>>

tempVars == <<temps, tempHeap, tempRet>>

vars ==
  <<denseMapVars, sizesVars, poolVars, freeListVars, stackVars, linearVars,
    heapVars,
    ringVars,
    tableVars,
    jsonVars,
    tempVars>>

\* What the calls on one object leave alone: the other objects.
restOfDenseMap ==
  <<sizesVars, poolVars, freeListVars, stackVars, linearVars, heapVars,
    ringVars,
    tableVars,
    jsonVars,
    tempVars>>

restOfSizes ==
  <<denseMapVars, poolVars, freeListVars, stackVars, linearVars, heapVars,
    ringVars,
    tableVars,
    jsonVars,
    tempVars>>

restOfPool ==
  <<denseMapVars, sizesVars, freeListVars, stackVars, linearVars, heapVars,
    ringVars,
    tableVars,
    jsonVars,
    tempVars>>

restOfFreeList ==
  <<denseMapVars, sizesVars, poolVars, stackVars, linearVars, heapVars,
    ringVars,
    tableVars,
    jsonVars,
    tempVars>>

restOfStack ==
  <<denseMapVars, sizesVars, poolVars, freeListVars, linearVars, heapVars,
    ringVars,
    tableVars,
    jsonVars,
    tempVars>>

restOfLinear ==
  <<denseMapVars, sizesVars, poolVars, freeListVars, stackVars, heapVars,
    ringVars,
    tableVars,
    jsonVars,
    tempVars>>

restOfHeap ==
  <<denseMapVars, sizesVars, poolVars, freeListVars, stackVars, linearVars,
    ringVars,
    tableVars,
    jsonVars,
    tempVars>>

restOfRing ==
  <<denseMapVars, sizesVars, poolVars, freeListVars,
    stackVars, linearVars, heapVars,
    tableVars,
    jsonVars,
    tempVars>>

restOfTable ==
  <<denseMapVars, sizesVars, poolVars, freeListVars,
    stackVars, linearVars, heapVars, ringVars,
    jsonVars,
    tempVars>>

restOfJson ==
  <<denseMapVars, sizesVars, poolVars, freeListVars,
    stackVars, linearVars, heapVars, ringVars,
    tableVars,
    tempVars>>

restOfTemp ==
  <<denseMapVars, sizesVars, poolVars, freeListVars,
    stackVars, linearVars, heapVars, ringVars,
    tableVars, jsonVars>>

(***************************************************************************)
(* Fixed-width integer helpers.                                            *)
(***************************************************************************)
\* dense_map::IDType(n) for a natural number n below 2^31.
IDTypeCast(n) == <<(n \div HalfWordModulus) % HalfWordModulus, n % HalfWordModulus>>

\* x + y and x - y in std::uint32_t (wrapping modulo 2^32).
U32Add(x, y) ==
  LET lo == x[2] + y[2]
  IN  <<(x[1] + y[1] + (lo \div HalfWordModulus)) % HalfWordModulus,
        lo % HalfWordModulus>>

U32Sub(x, y) ==
  LET lo == x[2] - y[2]
  IN  <<(x[1] - y[1] - (IF lo < 0 THEN 1 ELSE 0)) % HalfWordModulus,
        lo % HalfWordModulus>>

\* 0xFFFF_FFFF
U32Max == <<HalfWordModulus - 1, HalfWordModulus - 1>>

\* dense_map::IndexType(x & INDEX_MASK) for a 32 bit x and the all-ones
\* 16 bit mask: the low half word.
AndIndexMask(x) == x[2] % (INDEX_MASK + 1)

\* dense_map::IndexType(n)
IndexTypeCast(n) == n % IndexTypeModulus

(***************************************************************************)
(* bf::Array<T> primitives used by the DenseMap (growable store).          *)
(***************************************************************************)
Array_size(a) == Len(a)

Array_at(a, i) == a[i + 1]

Array_back(a) == a[Len(a)]

Array_emplace(a, e) == Append(a, e)

Array_pop(a) == SubSeq(a, 1, Len(a) - 1)

Array_clear(a) == << >>

\* The capacity an array of capacity cap has after it had to grow.
Array_growKeep(cap) == cap
Array_grow(cap) == IF cap = 0 THEN 1 ELSE 2 * cap

\* Whether emplace on an array of len elements has to allocate.
Array_mustGrow(len, cap) == len >= cap

\* The capacity after a successful emplace.
Array_capacityAfterEmplace(len, cap) ==
  IF Array_mustGrow(len, cap) THEN Array_grow(cap) ELSE cap

\* The capacity of an array that grew from nothing to n elements.
RECURSIVE Array_grownTo(_, _)
Array_grownTo(cap, n) ==
  IF n <= cap THEN cap ELSE Array_grownTo(Array_grow(cap), n)

(***************************************************************************)
(* DenseMapHandle<T>                                                       *)
(***************************************************************************)
\* DenseMapHandle(const IDType id = INDEX_MASK) : id_index(id)
DenseMapHandle(id) == id

\* The default argument of the constructor: INDEX_MASK widened to IDType.
DefaultHandleArgAllOnes == U32Max
DefaultHandleArgOnePlus == IDTypeCast(ONE_PLUS_INDEX_TYPE_MAX)
DefaultHandleArg == IDTypeCast(INDEX_MASK)

DefaultHandle == DenseMapHandle(DefaultHandleArg)

\* bool isValid() const { return id_index != dense_map::INDEX_MASK; }
isValidAllOnes(h) == h # U32Max
isValid(h) == h # IDTypeCast(INDEX_MASK)

(***************************************************************************)
(* dense_map::Index and DenseMap::Proxy                                    *)
(***************************************************************************)
\* Index(IDType id, IndexType i) : id(id), index(i), next(INDEX_MASK)
Index(id, i) == [id |-> id, index |-> i, next |-> INDEX_MASK]

\* Proxy(IDType id, Args&&... args) : data(args...), id(id)
Proxy(id, v) == [data |-> v, id |-> id]

(***************************************************************************)
(* DenseMap::has                                                           *)
(***************************************************************************)
\* has that forgets to compare the stored id with the handle.
hasNoIdCheck(sparse, h) ==
  LET index == AndIndexMask(h)
  IN  IF index < Array_size(sparse)
      THEN Array_at(sparse, index).index # INDEX_MASK
      ELSE FALSE

has(sparse, h) ==
  LET index == AndIndexMask(h)
  IN  IF index < Array_size(sparse)
      THEN LET in == Array_at(sparse, index)
           IN  in.id = h /\ in.index # INDEX_MASK
      ELSE FALSE

(***************************************************************************)
(* DenseMap::find (its assertion has(id) is the caller's guard)            *)
(***************************************************************************)
find(dense, sparse, h) ==
  LET in == Array_at(sparse, AndIndexMask(h))
  IN  Array_at(dense, in.index).data

(***************************************************************************)
(* DenseMap::getNextIndex: the slot add will use.  The result is the       *)
(* position of the returned Index& together with the sparse array and the  *)
(* free-chain head after the call.                                         *)
(***************************************************************************)
\* The id a new sparse slot is created with: IDType(m_SparseIndices.length())
NewSlotIdZero(len) == IDTypeCast(0)
NewSlotId(len) == IDTypeCast(len)

\* getNextIndex that never looks at the free chain.
getNextIndexAlwaysNew(sparse, nextSparse) ==
  [pos    |-> Array_size(sparse),
   sparse |-> Array_emplace(sparse,
                            Index(NewSlotId(Array_size(sparse)), INDEX_MASK)),
   next   |-> nextSparse]

getNextIndex(sparse, nextSparse) ==
  IF nextSparse # INDEX_MASK
  THEN [pos    |-> nextSparse,
        sparse |-> sparse,
        next   |-> Array_at(sparse, nextSparse).next]
  ELSE [pos    |-> Array_size(sparse),
        sparse |-> Array_emplace(sparse,
                                 Index(NewSlotId(Array_size(sparse)), INDEX_MASK)),
        next   |-> nextSparse]

\* in.id += dense_map::ONE_PLUS_INDEX_TYPE_MAX;
BumpIdNone(id) == id
BumpIdDecrement(id) == U32Sub(id, IDTypeCast(1))
BumpId(id) == U32Add(id, IDTypeCast(ONE_PLUS_INDEX_TYPE_MAX))

(***************************************************************************)
(* DenseMap::add: the map after add(v), and the handle returned.           *)
(***************************************************************************)
\* add that gives the dense entry the id the slot had before the call.
addResultStaleProxyId(dense, sparse, nextSparse, v) ==
  LET g   == getNextIndex(sparse, nextSparse)
      old == Array_at(g.sparse, g.pos)
      in  == [old EXCEPT !.id    = BumpId(old.id),
                         !.index = IndexTypeCast(Array_size(dense))]
  IN  [dense  |-> Array_emplace(dense, Proxy(old.id, v)),
       sparse |-> [g.sparse EXCEPT ![g.pos + 1] = in],
       next   |-> g.next,
       pos    |-> g.pos,
       handle |-> DenseMapHandle(in.id)]

addResult(dense, sparse, nextSparse, v) ==
  LET g   == getNextIndex(sparse, nextSparse)
      old == Array_at(g.sparse, g.pos)
      in  == [old EXCEPT !.id    = BumpId(old.id),
                         !.index = IndexTypeCast(Array_size(dense))]
  IN  [dense  |-> Array_emplace(dense, Proxy(in.id, v)),
       sparse |-> [g.sparse EXCEPT ![g.pos + 1] = in],
       next   |-> g.next,
       pos    |-> g.pos,
       handle |-> DenseMapHandle(in.id)]

(***************************************************************************)
(* DenseMap::remove: the map after remove(h), for has(h).                  *)
(***************************************************************************)
\* remove that repairs the moved entry's sparse index but forgets
\* obj = std::move(back_element).
removeResultNoMove(dense, sparse, nextSparse, h) ==
  LET index   == AndIndexMask(h)
      in      == Array_at(sparse, index)
      back    == Array_back(dense)
      isBack  == in.index = Array_size(dense) - 1
      sparse1 == IF isBack THEN sparse
                 ELSE [sparse EXCEPT ![AndIndexMask(back.id) + 1].index = in.index]
  IN  [dense  |-> Array_pop(dense),
       sparse |-> [sparse1 EXCEPT ![index + 1].index = INDEX_MASK,
                                  ![index + 1].next  = nextSparse],
       next   |-> index]

\* remove that forgets in.index = INDEX_MASK.
removeResultStillOccupied(dense, sparse, nextSparse, h) ==
  LET index   == AndIndexMask(h)
      in      == Array_at(sparse, index)
      back    == Array_back(dense)
      isBack  == in.index = Array_size(dense) - 1
      dense1  == IF isBack THEN dense
                 ELSE [dense EXCEPT ![in.index + 1] = back]
      sparse1 == IF isBack THEN sparse
                 ELSE [sparse EXCEPT ![AndIndexMask(back.id) + 1].index = in.index]
  IN  [dense  |-> Array_pop(dense1),
       sparse |-> [sparse1 EXCEPT ![index + 1].next = nextSparse],
       next   |-> index]

\* remove that moves the last entry but forgets to repair its sparse index.
removeResultNoRepair(dense, sparse, nextSparse, h) ==
  LET index   == AndIndexMask(h)
      in      == Array_at(sparse, index)
      back    == Array_back(dense)
      isBack  == in.index = Array_size(dense) - 1
      dense1  == IF isBack THEN dense
                 ELSE [dense EXCEPT ![in.index + 1] = back]
  IN  [dense  |-> Array_pop(dense1),
       sparse |-> [sparse EXCEPT ![index + 1].index = INDEX_MASK,
                                 ![index + 1].next  = nextSparse],
       next   |-> index]

\* remove that forgets in.next = m_NextSparse.
removeResultNoLink(dense, sparse, nextSparse, h) ==
  LET index   == AndIndexMask(h)
      in      == Array_at(sparse, index)
      back    == Array_back(dense)
      isBack  == in.index = Array_size(dense) - 1
      dense1  == IF isBack THEN dense
                 ELSE [dense EXCEPT ![in.index + 1] = back]
      sparse1 == IF isBack THEN sparse
                 ELSE [sparse EXCEPT ![AndIndexMask(back.id) + 1].index = in.index]
  IN  [dense  |-> Array_pop(dense1),
       sparse |-> [sparse1 EXCEPT ![index + 1].index = INDEX_MASK],
       next   |-> index]

removeResult(dense, sparse, nextSparse, h) ==
  LET index   == AndIndexMask(h)
      in      == Array_at(sparse, index)
      back    == Array_back(dense)
      isBack  == in.index = Array_size(dense) - 1
      \* obj = std::move(back_element)
      dense1  == IF isBack THEN dense
                 ELSE [dense EXCEPT ![in.index + 1] = back]
      \* m_SparseIndices[obj.id & INDEX_MASK].index = in.index
      sparse1 == IF isBack THEN sparse
                 ELSE [sparse EXCEPT ![AndIndexMask(back.id) + 1].index = in.index]
  IN  [dense  |-> Array_pop(dense1),
       sparse |-> [sparse1 EXCEPT ![index + 1].index = INDEX_MASK,
                                  ![index + 1].next  = nextSparse],
       next   |-> index]

(***************************************************************************)
(* DenseMap::clear                                                         *)
(***************************************************************************)
\* clear that forgets m_SparseIndices.clear().
clearResultKeepSparse(dense, sparse, nextSparse) ==
  [dense  |-> Array_clear(dense),
   sparse |-> sparse,
   next   |-> INDEX_MASK]

clearResult(dense, sparse, nextSparse) ==
  [dense  |-> Array_clear(dense),
   sparse |-> Array_clear(sparse),
   next   |-> INDEX_MASK]

(***************************************************************************)
(* The handles a client may present: every (generation, slot) pair the     *)
(* bounds allow, a slot position beyond them, the default handle, the      *)
(* all-ones id and the highest generation of slot 0.                       *)
(***************************************************************************)
Probes ==
  {<<g, s>> : g \in 0 .. MaxGen, s \in 0 .. MaxLive}
    \cup {DefaultHandle, U32Max, <<HalfWordModulus - 1, 0>>}

\* has(h) needs the stored id of a slot to equal h, so the probes together
\* with the stored ids and the client's book decide has for all 2^32 ids.
HandleUniverse ==
  Probes \cup {m_SparseIndices[i].id : i \in DOMAIN m_SparseIndices}
         \cup DOMAIN held

\* The handles has() accepts in the current state.
ValidHandles == {h \in HandleUniverse : has(m_SparseIndices, h)}

EmptyMap == [h \in {} |-> 0]

NoHandle == IDTypeCast(0)

NoCall == [op |-> "none", h |-> NoHandle, v |-> 0, b |-> FALSE]

NothingKept == [how |-> "none", h |-> NoHandle]

\* Every handle the client's book still knows add to have returned.
Issued == DOMAIN held \cup (IF kept.how = "none" THEN {} ELSE {kept.h})

(***************************************************************************)
(* The members of DenseMap: ObjectArray m_DenseArray, IndexArray           *)
(* m_SparseIndices, dense_map::IndexType m_NextSparse.                     *)
(***************************************************************************)
U32 == (0 .. HalfWordModulus - 1) \X (0 .. HalfWordModulus - 1)

DenseMapMembers ==
  /\ m_DenseArray \in Seq([data : Values, id : U32])
  /\ m_SparseIndices \in Seq([id : U32, index : 0 .. INDEX_MASK,
                               next : 0 .. INDEX_MASK])
  /\ m_NextSparse \in 0 .. INDEX_MASK

(***************************************************************************)
(* State after construction: DenseMap(IMemoryManager&)                     *)
(***************************************************************************)
\* An object that a behaviour does not construct.
NoObject == "not constructed"

NoPool == pool = NoObject /\ poolRet = NoObject /\ poolLive = NoObject

NoFreeList ==
  freeList = NoObject /\ freeListRet = NoObject /\ freeListLive = NoObject

NoStack == stack = NoObject /\ stackRet = NoObject /\ stackLive = NoObject

NoSizes == sizes = NoObject /\ sizesRet = NoObject

NoLinear ==
  /\ linear = NoObject
  /\ linearRet = NoObject
  /\ linearLive = NoObject
  /\ linearScopes = NoObject

NoHeap == heap = NoObject /\ heapRet = NoObject

NoRing ==
  /\ ring = NoObject
  /\ ringRet = NoObject
  /\ ringGhost = NoObject

NoTable ==
  /\ table = NoObject
  /\ tableRet = NoObject
  /\ tableKeys = NoObject

NoJson ==
  /\ ctx = NoObject
  /\ control = NoObject
  /\ events = NoObject

NoTemp ==
  /\ temps = NoObject
  /\ tempHeap = NoObject
  /\ tempRet = NoObject

InitDenseMap ==
  /\ m_DenseArray = << >>
  /\ m_SparseIndices = << >>
  /\ m_NextSparse = INDEX_MASK
  /\ ret = NoCall
  /\ held = EmptyMap
  /\ kept = NothingKept
  /\ uses = << >>
  /\ arrayCapacity = [dense |-> 0, sparse |-> 0]

\* The other objects are not part of the map's behaviours.
Init ==
  /\ InitDenseMap
  /\ NoSizes
  /\ NoPool
  /\ NoFreeList
  /\ NoStack
  /\ NoLinear
  /\ NoHeap
  /\ NoRing
  /\ NoTable
  /\ NoJson
  /\ NoTemp

(***************************************************************************)
(* Client calls.                                                           *)
(***************************************************************************)
\* The generation of the slot getNextIndex would hand to add.
NextSlotGeneration ==
  IF m_NextSparse # INDEX_MASK
  THEN Array_at(m_SparseIndices, m_NextSparse).id[1]
  ELSE 0

\* The assertion add makes before it takes a slot, with an off-by-one variant.
addAssertionInclusive(size) == size <= INDEX_MASK
addAssertion(size) == size < INDEX_MASK

\* A call of add whose assertion holds.
AddCall(v) ==
  /\ addAssertion(Array_size(m_DenseArray))
  /\ LET r == addResult(m_DenseArray, m_SparseIndices, m_NextSparse, v)
     IN  /\ m_DenseArray' = r.dense
         /\ m_SparseIndices' = r.sparse
         /\ m_NextSparse' = r.next
         /\ ret' = [op |-> "add", h |-> r.handle, v |-> v, b |-> TRUE]
         /\ held' = [x \in DOMAIN held \cup {r.handle} |->
                       IF x = r.handle THEN v ELSE held[x]]
         /\ kept' = IF kept.how = "removed" /\ AndIndexMask(kept.h) = r.pos
                    THEN [kept EXCEPT !.how = "reused"]
                    ELSE kept
         /\ uses' = IF r.pos < Len(uses)
                    THEN [uses EXCEPT ![r.pos + 1] = @ + 1]
                    ELSE Append(uses, 1)
         /\ arrayCapacity' =
              [dense  |-> Array_capacityAfterEmplace(Array_size(m_DenseArray),
                                                     arrayCapacity.dense),
               sparse |-> IF Array_size(r.sparse) > Array_size(m_SparseIndices)
                          THEN Array_capacityAfterEmplace(
                                 Array_size(m_SparseIndices),
                                 arrayCapacity.sparse)
                          ELSE arrayCapacity.sparse]
  /\ UNCHANGED restOfDenseMap

Add(v) ==
  /\ Array_size(m_DenseArray) < MaxLive
  /\ NextSlotGeneration < MaxGen
  /\ AddCall(v)

\* remove(h) past its assertion.  keep: whether the client keeps the stale
\* handle after the call.
RemoveBody(h, keep) ==
  /\ LET r == removeResult(m_DenseArray, m_SparseIndices, m_NextSparse, h)
     IN  /\ m_DenseArray' = r.dense
         /\ m_SparseIndices' = r.sparse
         /\ m_NextSparse' = r.next
  /\ ret' = [op |-> "remove", h |-> h, v |-> 0, b |-> TRUE]
  /\ held' = [x \in DOMAIN held \ {h} |-> held[x]]
  /\ kept' = IF keep THEN [how |-> "removed", h |-> h] ELSE kept
  /\ UNCHANGED <<uses, arrayCapacity, restOfDenseMap>>

Remove(h, keep) ==
  /\ has(m_SparseIndices, h)                     \* the assertion of remove
  /\ RemoveBody(h, keep)

Clear ==
  /\ LET r == clearResult(m_DenseArray, m_SparseIndices, m_NextSparse)
     IN  /\ m_DenseArray' = r.dense
         /\ m_SparseIndices' = r.sparse
         /\ m_NextSparse' = r.next
  \* v: how many handles the client held when it called clear
  /\ ret' = [op |-> "clear", h |-> NoHandle, v |-> Cardinality(DOMAIN held),
             b |-> TRUE]
  /\ held' = EmptyMap
  /\ uses' = << >>
  /\ UNCHANGED <<kept, arrayCapacity, restOfDenseMap>>

Has(h) ==
  /\ ret' = [op |-> "has", h |-> h, v |-> 0, b |-> has(m_SparseIndices, h)]
  /\ UNCHANGED <<m_DenseArray, m_SparseIndices, m_NextSparse, held, kept, uses,
                 arrayCapacity, restOfDenseMap>>

\* find(h) past its assertion.
FindBody(h) ==
  /\ ret' = [op |-> "find", h |-> h,
             v |-> find(m_DenseArray, m_SparseIndices, h), b |-> TRUE]
  /\ UNCHANGED <<m_DenseArray, m_SparseIndices, m_NextSparse, held, kept, uses,
                 arrayCapacity, restOfDenseMap>>

Find(h) ==
  /\ has(m_SparseIndices, h)                     \* the assertion of find
  /\ FindBody(h)

\* DenseMapHandle<T> d; d.isValid()
DefaultIsValid ==
  /\ ret' = [op |-> "default", h |-> DefaultHandle, v |-> 0,
             b |-> isValid(DefaultHandle)]
  /\ UNCHANGED <<m_DenseArray, m_SparseIndices, m_NextSparse, held, kept, uses,
                 arrayCapacity, restOfDenseMap>>

\* DenseMapHandle<T>(h).isValid()
IsValid(h) ==
  /\ ret' = [op |-> "isValid", h |-> DenseMapHandle(h), v |-> 0,
             b |-> isValid(DenseMapHandle(h))]
  /\ UNCHANGED <<m_DenseArray, m_SparseIndices, m_NextSparse, held, kept, uses,
                 arrayCapacity, restOfDenseMap>>

\* The ids isValid is asked about.
ValidityProbes == {DefaultHandle, U32Max, IDTypeCast(0), <<1, 0>>}

\* The handles the client calls has() with: the first two generations of
\* slots 0 and 1, a slot position that never exists, the default handle and
\* the all-ones id.  (The claims quantify over all of Probes.)
HasProbes ==
  {<<1, 0>>, <<2, 0>>, <<1, 1>>, <<1, MaxLive>>, DefaultHandle, U32Max}

\* The client forgets a handle once it has removed it.
Next ==
  \/ \E v \in Values : Add(v)
  \/ \E h \in Probes : Remove(h, FALSE)
  \/ Clear
  \/ \E h \in HasProbes : Has(h)
  \/ \E h \in Probes : Find(h)
  \/ DefaultIsValid
  \/ \E h \in ValidityProbes : IsValid(h)

Spec == Init /\ [][Next]_vars

\* The client may keep one removed handle and watch what becomes of it.
NextStale ==
  \/ \E v \in Values : Add(v)
  \/ \E h \in Probes, keep \in BOOLEAN : Remove(h, keep)
  \/ Clear

SpecStale == Init /\ [][NextStale]_vars

(***************************************************************************)
(* The map by its sizes alone, which is what lets the checker take it to   *)
(* the end of the 16 bit index space: sizes.dense is m_DenseArray.size(),  *)
(* sizes.sparse is m_SparseIndices.length(), sizes.free is the number of   *)
(* slots on the free chain (m_NextSparse is INDEX_MASK when it is 0).      *)
(* A failed assertion aborts the process.                                  *)
(***************************************************************************)
\* The most slots the client lets the free chain have.
MaxFreeSlots == 2

\* The slots on the free chain of the map, from position pos on.
RECURSIVE ChainLength(_, _, _)
ChainLength(sparse, pos, fuel) ==
  IF pos = INDEX_MASK \/ fuel = 0 THEN 0
  ELSE 1 + ChainLength(sparse, Array_at(sparse, pos).next, fuel - 1)

\* The sizes of the map of the bounded specifications.
MapSizes ==
  [dense  |-> Array_size(m_DenseArray),
   sparse |-> Array_size(m_SparseIndices),
   free   |-> ChainLength(m_SparseIndices, m_NextSparse,
                          Array_size(m_SparseIndices))]

\* In the bounded specifications the sizes are related as the calls below
\* take them to be: a slot is occupied or on the free chain.
SizesAbstractionHolds ==
  /\ MapSizes.sparse = MapSizes.dense + MapSizes.free
  /\ (m_NextSparse = INDEX_MASK) <=> (MapSizes.free = 0)

\* getNextIndex: a slot of the free chain, or a new slot at position
\* length().
getNextIndexSizes(z) ==
  IF z.free > 0
  THEN [sizes |-> [z EXCEPT !.free = @ - 1], created |-> FALSE]
  ELSE [sizes |-> [z EXCEPT !.sparse = @ + 1], created |-> TRUE]

InitSizes ==
  /\ sizes = [dense |-> 0, sparse |-> 0, free |-> 0]
  /\ sizesRet = [op |-> "none", created |-> FALSE, length |-> 0, index |-> 0]

\* add: length is m_SparseIndices.length() before the call, the position of
\* the slot if one was created; index is what in.index was set to.
SizesAdd ==
  /\ sizesRet.op # "abort"
  /\ addAssertion(sizes.dense)
  /\ LET g == getNextIndexSizes(sizes)
     IN  /\ sizes' = [g.sizes EXCEPT !.dense = @ + 1]
         /\ sizesRet' = [op |-> "add", created |-> g.created,
                         length |-> sizes.sparse,
                         index |-> IndexTypeCast(sizes.dense)]
  /\ UNCHANGED restOfSizes

\* add with the assertion failing.
SizesAddAborts ==
  /\ sizesRet.op # "abort"
  /\ ~addAssertion(sizes.dense)
  /\ sizesRet' = [op |-> "abort", created |-> FALSE,
                  length |-> sizes.sparse, index |-> INDEX_MASK]
  /\ UNCHANGED <<sizes, restOfSizes>>

\* remove of a valid handle: the slot goes onto the free chain with
\* in.index = INDEX_MASK.
SizesRemove ==
  /\ sizesRet.op # "abort"
  /\ sizes.dense > 0
  /\ sizes.free < MaxFreeSlots
  /\ sizes' = [sizes EXCEPT !.dense = @ - 1, !.free = @ + 1]
  /\ sizesRet' = [op |-> "remove", created |-> FALSE,
                  length |-> sizes.sparse, index |-> INDEX_MASK]
  /\ UNCHANGED restOfSizes

SizesClear ==
  /\ sizesRet.op # "abort"
  /\ sizes' = [dense |-> 0, sparse |-> 0, free |-> 0]
  /\ sizesRet' = [op |-> "clear", created |-> FALSE,
                  length |-> sizes.sparse, index |-> INDEX_MASK]
  /\ UNCHANGED restOfSizes

NextSizes ==
  \/ SizesAdd
  \/ SizesAddAborts
  \/ SizesRemove
  \/ SizesClear

InitSizesOnly ==
  /\ InitSizes
  /\ InitDenseMap
  /\ NoPool
  /\ NoFreeList
  /\ NoStack
  /\ NoLinear
  /\ NoHeap
  /\ NoRing
  /\ NoTable
  /\ NoJson
  /\ NoTemp

SpecSizes == InitSizesOnly /\ [][NextSizes]_vars

(***************************************************************************)
(* add when the allocator cannot give an array the storage it has to grow  *)
(* into.  Array::emplace constructs the element at whatever bfArray_emplace*)
(* returns, and add looks at no result: constructing at the null pointer   *)
(* is undefined, so the call either ends the process or returns with the   *)
(* element stored nowhere.  Nothing is modelled after either outcome.      *)
(***************************************************************************)
\* add up to, and not including, m_DenseArray.emplace.
addBeforeDenseEmplace(dense, sparse, nextSparse) ==
  LET g   == getNextIndex(sparse, nextSparse)
      old == Array_at(g.sparse, g.pos)
      in  == [old EXCEPT !.id    = BumpId(old.id),
                         !.index = IndexTypeCast(Array_size(dense))]
  IN  [sparse |-> [g.sparse EXCEPT ![g.pos + 1] = in],
       next   |-> g.next,
       pos    |-> g.pos,
       handle |-> DenseMapHandle(in.id)]

UndefinedOutcomes == {"crash", "unstored"}

Alive == ret.op \notin UndefinedOutcomes

\* getNextIndex has to append a slot and m_SparseIndices cannot grow: the
\* slot is constructed at the null pointer before anything was written.
AddSparseGrowthFails(v) ==
  /\ Alive
  /\ addAssertion(Array_size(m_DenseArray))
  /\ Array_size(m_DenseArray) < MaxLive
  /\ m_NextSparse = INDEX_MASK
  /\ Array_mustGrow(Array_size(m_SparseIndices), arrayCapacity.sparse)
  /\ ret' = [op |-> "crash", h |-> NoHandle, v |-> v, b |-> FALSE]
  /\ UNCHANGED <<m_DenseArray, m_SparseIndices, m_NextSparse, held, kept, uses,
                 arrayCapacity, restOfDenseMap>>

\* m_DenseArray cannot grow: the slot was taken and written before.
AddDenseGrowthFails(v, outcome) ==
  /\ Alive
  /\ addAssertion(Array_size(m_DenseArray))
  /\ Array_size(m_DenseArray) < MaxLive
  /\ NextSlotGeneration < MaxGen
  /\ Array_mustGrow(Array_size(m_DenseArray), arrayCapacity.dense)
  /\ LET r == addBeforeDenseEmplace(m_DenseArray, m_SparseIndices,
                                    m_NextSparse)
     IN  /\ m_SparseIndices' = r.sparse
         /\ m_NextSparse' = r.next
         /\ ret' = [op |-> outcome,
                    h  |-> IF outcome = "crash" THEN NoHandle ELSE r.handle,
                    v  |-> v, b |-> FALSE]
         /\ arrayCapacity' =
              [arrayCapacity EXCEPT
                 !.sparse = IF Array_size(r.sparse)
                                > Array_size(m_SparseIndices)
                            THEN Array_capacityAfterEmplace(
                                   Array_size(m_SparseIndices), @)
                            ELSE @]
  /\ UNCHANGED <<m_DenseArray, held, kept, uses, restOfDenseMap>>

AddWhileAlive(v) == Alive /\ Add(v)

RemoveWhileAlive(h) == Alive /\ Remove(h, FALSE)

ClearWhileAlive == Alive /\ Clear

NextAllocFail ==
  \/ \E v \in Values : AddWhileAlive(v)
  \/ \E h \in Probes : RemoveWhileAlive(h)
  \/ ClearWhileAlive
  \/ \E v \in Values : AddSparseGrowthFails(v)
  \/ \E v \in Values, outcome \in UndefinedOutcomes :
       AddDenseGrowthFails(v, outcome)

SpecAllocFail == Init /\ [][NextAllocFail]_vars

(***************************************************************************)
(* find and remove with any handle, in a build with assertions: a failed   *)
(* assert(has(id)) aborts the process before the call has read or written  *)
(* anything else.                                                          *)
(***************************************************************************)
\* assert(has(id) && "Only valid IDs are allowed to be passed into
\* DenseMap::find.")
findAssertion(sparse, h) == has(sparse, h)

\* assert(has(id) && ...) of remove, with a variant that only looks whether
\* the slot is occupied.
removeAssertionSlotOnly(sparse, h) == hasNoIdCheck(sparse, h)
removeAssertion(sparse, h) == has(sparse, h)

AssertionFailed == {"find aborted", "remove aborted"}

Running == ret.op \notin AssertionFailed

AddWhileRunning(v) == Running /\ Add(v)

ClearWhileRunning == Running /\ Clear

\* remove(h), the assertion holding; the client keeps the handle.
RemoveAsserted(h) ==
  /\ Running
  /\ removeAssertion(m_SparseIndices, h)
  /\ RemoveBody(h, TRUE)

\* remove(h), the assertion failing.
RemoveAborts(h) ==
  /\ Running
  /\ ~removeAssertion(m_SparseIndices, h)
  /\ ret' = [op |-> "remove aborted", h |-> h, v |-> 0, b |-> FALSE]
  /\ UNCHANGED <<m_DenseArray, m_SparseIndices, m_NextSparse, held, kept, uses,
                 arrayCapacity, restOfDenseMap>>

\* find(h), the assertion holding.
FindAsserted(h) ==
  /\ Running
  /\ findAssertion(m_SparseIndices, h)
  /\ FindBody(h)

\* find(h), the assertion failing.
FindAborts(h) ==
  /\ Running
  /\ ~findAssertion(m_SparseIndices, h)
  /\ ret' = [op |-> "find aborted", h |-> h, v |-> 0, b |-> FALSE]
  /\ UNCHANGED <<m_DenseArray, m_SparseIndices, m_NextSparse, held, kept, uses,
                 arrayCapacity, restOfDenseMap>>

NextMisuse ==
  \/ \E v \in Values : AddWhileRunning(v)
  \/ ClearWhileRunning
  \/ \E h \in Probes : RemoveAsserted(h)
  \/ \E h \in Probes : RemoveAborts(h)
  \/ \E h \in Probes : FindAsserted(h)
  \/ \E h \in Probes : FindAborts(h)

SpecMisuse == Init /\ [][NextMisuse]_vars

(***************************************************************************)
(* The fixed pool (bf_pool_allocator.hpp).  Addresses are numbers; the     *)
(* block of a MemoryManager is [m_MemoryBlockBegin, m_MemoryBlockEnd).     *)
(***************************************************************************)
nullptr == 0

\* sizeof(PoolHeader) and alignof(PoolHeader): one pointer.
PoolHeaderSize == 8

PoolHeaderAlign == 8

\* Number of slots of the pool (num_elements of PoolAllocator<T, num_elements>).
PoolNumElements == 3

\* sizeof(T) and alignof(T) of the element types T the pool is made for.
PoolTypes ==
  {[size |-> 1, align |-> 1], [size |-> 12, align |-> 4],
   [size |-> 24, align |-> 16]}

\* Where the block m_AllocBlock may lie.
PoolBlockBegins == {64}

Max(a, b) == IF a >= b THEN a ELSE b

aligned_size(size, alignment) ==
  ((size + alignment - 1) \div alignment) * alignment

alignment_req(T) == Max(T.align, PoolHeaderAlign)

allocation_size(T) == Max(T.size, PoolHeaderSize)

pool_stride(T) == aligned_size(allocation_size(T), alignment_req(T))

memory_block_size(T) == pool_stride(T) * PoolNumElements

\* MemoryManager::size()
MemoryManager_size(m) == m.m_MemoryBlockEnd - m.m_MemoryBlockBegin

capacityPlusOne(p) == MemoryManager_size(p) \div p.m_BlockSize + 1
capacity(p) == MemoryManager_size(p) \div p.m_BlockSize

\* The addresses of the slots of the pool.
PoolSlots(p) ==
  {p.m_MemoryBlockBegin + i * p.m_BlockSize : i \in 0 .. capacity(p) - 1}

\* reset(): every slot points to the slot after it, the last one to nothing.
resetResult(p) ==
  [p EXCEPT
     !.memory = [a \in PoolSlots(p) |->
                   IF a + p.m_BlockSize \in PoolSlots(p)
                   THEN a + p.m_BlockSize ELSE nullptr],
     !.m_PoolStart = IF capacity(p) = 0 THEN nullptr
                     ELSE p.m_MemoryBlockBegin]

\* PoolAllocatorImpl(memory_block, memory_block_size, sizeof_block,
\* alignof_block)
PoolAllocatorImpl(memory_block, block_size, sizeof_block, alignof_block) ==
  resetResult(
    [m_MemoryBlockBegin |-> memory_block,
     m_MemoryBlockEnd   |-> memory_block + block_size,
     m_BlockSize        |-> aligned_size(sizeof_block,
                                         Max(alignof_block, PoolHeaderAlign)),
     m_PoolStart        |-> nullptr,
     memory             |-> << >>])

\* PoolAllocator<T, PoolNumElements> with its block at memory_block.
PoolAllocator(T, memory_block) ==
  PoolAllocatorImpl(memory_block, memory_block_size(T), T.size, T.align)

\* allocate(size): the pool afterwards and the pointer returned.
PoolAllocate_result(p, size) ==
  IF p.m_PoolStart = nullptr
  THEN [pool |-> p, ptr |-> nullptr]
  ELSE [pool |-> [p EXCEPT !.m_PoolStart = p.memory[p.m_PoolStart]],
        ptr  |-> p.m_PoolStart]

\* The slots on the free list, head first.
RECURSIVE PoolChainFrom(_, _, _)
PoolChainFrom(p, a, fuel) ==
  IF a = nullptr \/ fuel = 0 THEN << >>
  ELSE <<a>> \o PoolChainFrom(p, p.memory[a], fuel - 1)

PoolFreeChain(p) == PoolChainFrom(p, p.m_PoolStart, capacity(p))

\* deallocate that appends the slot to the end of the free list.
PoolDeallocate_resultAtTail(p, ptr, size) ==
  LET chain == PoolFreeChain(p)
  IN  IF chain = << >>
      THEN [p EXCEPT !.memory[ptr] = nullptr, !.m_PoolStart = ptr]
      ELSE [p EXCEPT !.memory[ptr] = nullptr,
                     !.memory[chain[Len(chain)]] = ptr]

\* deallocate(ptr, size): the slot becomes the head of the free list.
PoolDeallocate_result(p, ptr, size) ==
  [p EXCEPT !.memory[ptr] = p.m_PoolStart, !.m_PoolStart = ptr]

NoPoolCall == [op |-> "none", ptr |-> nullptr]

InitPool ==
  \E T \in PoolTypes, b \in PoolBlockBegins :
    /\ pool = [T |-> T] @@ PoolAllocator(T, b)
    /\ poolRet = [op |-> "none", ptr |-> nullptr, prev |-> NoPoolCall]
    /\ poolLive = {}

PoolCalled(op, ptr) ==
  [op |-> op, ptr |-> ptr, prev |-> [op |-> poolRet.op, ptr |-> poolRet.ptr]]

\* allocate(sizeof(T))
PoolAllocate ==
  /\ LET r == PoolAllocate_result(pool, pool.T.size)
     IN  /\ pool' = r.pool
         /\ poolRet' = PoolCalled("allocate", r.ptr)
         /\ poolLive' = IF r.ptr = nullptr THEN poolLive
                        ELSE poolLive \cup {r.ptr}
  /\ UNCHANGED restOfPool

\* deallocate(ptr, sizeof(T)) of a live slot
PoolDeallocate(ptr) ==
  /\ ptr \in poolLive
  /\ pool' = PoolDeallocate_result(pool, ptr, pool.T.size)
  /\ poolRet' = PoolCalled("deallocate", ptr)
  /\ poolLive' = poolLive \ {ptr}
  /\ UNCHANGED restOfPool

\* reset(): every outstanding allocation is forgotten.
PoolReset ==
  /\ pool' = resetResult(pool)
  /\ poolRet' = PoolCalled("reset", nullptr)
  /\ poolLive' = {}
  /\ UNCHANGED restOfPool

\* Every slot address of every pool the behaviours construct.
PoolPointers ==
  UNION {PoolSlots(PoolAllocator(T, b)) : T \in PoolTypes, b \in PoolBlockBegins}

NextPool ==
  \/ PoolAllocate
  \/ \E ptr \in PoolPointers : PoolDeallocate(ptr)
  \/ PoolReset

InitPoolOnly ==
  /\ InitPool
  /\ InitDenseMap
  /\ NoSizes
  /\ NoFreeList
  /\ NoStack
  /\ NoLinear
  /\ NoHeap
  /\ NoRing
  /\ NoTable
  /\ NoJson
  /\ NoTemp

SpecPool == InitPoolOnly /\ [][NextPool]_vars

(***************************************************************************)
(* The free-list allocator (bf_freelist_allocator.hpp).  m_FreeList is the *)
(* list of free nodes in list order, each [begin, size]; headers holds the *)
(* AllocationHeader::size of every block handed out, by header address.    *)
(***************************************************************************)
\* sizeof(AllocationHeader): one std::size_t.
FreeListHeaderSize == 8

\* Size of the block the allocator is constructed over.
FreeListBlockSize == 72

\* Where the block may lie.
FreeListBlockBegins == {128}

\* The sizes the client asks for.
FreeListSizes == {8, 12, 16, 24}

\* FreeListNode::begin() and FreeListNode::end()
NodeBegin(node) == node.begin

NodeEndNoHeader(node) == NodeBegin(node) + node.size
NodeEnd(node) == NodeBegin(node) + FreeListHeaderSize + node.size

\* FreeListAllocator(memory_block, memory_block_size): one free node that
\* spans the block.
FreeListAllocator(memory_block, block_size) ==
  [m_MemoryBlockBegin |-> memory_block,
   m_MemoryBlockEnd   |-> memory_block + block_size,
   m_FreeList         |-> <<[begin |-> memory_block,
                             size  |-> block_size - FreeListHeaderSize]>>,
   headers            |-> << >>]

\* The nodes of the list that can serve a request of size bytes.
Fitting(list, size) == {i \in 1 .. Len(list) : list[i].size >= size}

\* Position of the fitting node with the least size (the first of them).
BestFit(list, size) ==
  LET fit == Fitting(list, size)
  IN  IF fit = {} THEN 0
      ELSE CHOOSE i \in fit :
             \A j \in fit : \/ list[i].size < list[j].size
                            \/ list[i].size = list[j].size /\ i <= j

\* Position of the first node in list order that fits, 0 when none does.
FirstFit(list, size) ==
  LET fit == Fitting(list, size)
  IN  IF fit = {} THEN 0 ELSE CHOOSE i \in fit : \A j \in fit : i <= j

\* Whether what is left of the node after size bytes and their header can
\* hold another header.
CanSplitMoreThanHeader(node, size) == node.size - size > FreeListHeaderSize
CanSplit(node, size) == node.size - size >= FreeListHeaderSize

RemoveAt(list, i) == SubSeq(list, 1, i - 1) \o SubSeq(list, i + 1, Len(list))

InsertAt(list, i, e) ==
  SubSeq(list, 1, i - 1) \o <<e>> \o SubSeq(list, i, Len(list))

\* h with the value v at x, x in its domain or not.
Store(h, x, v) == [y \in DOMAIN h \cup {x} |-> IF y = x THEN v ELSE h[y]]

\* allocate(size): the allocator afterwards and the pointer returned.
FreeListAllocate_result(fl, size) ==
  LET i == FirstFit(fl.m_FreeList, size)
  IN  IF i = 0 THEN [fl |-> fl, ptr |-> nullptr]
      ELSE
        LET node == fl.m_FreeList[i]
            rest == [begin |-> NodeBegin(node) + FreeListHeaderSize + size,
                     size  |-> node.size - size - FreeListHeaderSize]
        IN  IF CanSplit(node, size)
            THEN [fl  |-> [fl EXCEPT
                             !.m_FreeList = [@ EXCEPT ![i] = rest],
                             !.headers = Store(@, NodeBegin(node), size)],
                  ptr |-> NodeBegin(node) + FreeListHeaderSize]
            ELSE [fl  |-> [fl EXCEPT
                             !.m_FreeList = RemoveAt(@, i),
                             !.headers = Store(@, NodeBegin(node), node.size)],
                  ptr |-> NodeBegin(node) + FreeListHeaderSize]

\* The list after node was put at position k and merged with the nodes
\* before and after it that touch it.
MergeNext(list, k) ==
  IF k < Len(list) /\ NodeEnd(list[k]) = NodeBegin(list[k + 1])
  THEN RemoveAt([list EXCEPT ![k].size =
                   @ + FreeListHeaderSize + list[k + 1].size], k + 1)
  ELSE list

MergePrevNever(list, k) == list
MergePrev(list, k) ==
  IF k > 1 /\ NodeEnd(list[k - 1]) = NodeBegin(list[k])
  THEN RemoveAt([list EXCEPT ![k - 1].size =
                   @ + FreeListHeaderSize + list[k].size], k)
  ELSE list

\* deallocate that puts the node at the head of the list.
FreeListDeallocate_resultAtHead(fl, ptr) ==
  LET header == ptr - FreeListHeaderSize
      node   == [begin |-> header, size |-> fl.headers[header]]
      list   == fl.m_FreeList
  IN  [fl EXCEPT
         !.m_FreeList = MergePrev(MergeNext(InsertAt(list, 1, node), 1), 1),
         !.headers = [x \in DOMAIN @ \ {header} |-> @[x]]]

\* deallocate(ptr, num_bytes): the node goes into the list in address order.
FreeListDeallocate_result(fl, ptr) ==
  LET header == ptr - FreeListHeaderSize
      node   == [begin |-> header, size |-> fl.headers[header]]
      list   == fl.m_FreeList
      k      == Cardinality({i \in 1 .. Len(list) :
                               NodeBegin(list[i]) < NodeBegin(node)}) + 1
  IN  [fl EXCEPT
         !.m_FreeList = MergePrev(MergeNext(InsertAt(list, k, node), k), k),
         !.headers = [x \in DOMAIN @ \ {header} |-> @[x]]]

InitFreeList ==
  \E b \in FreeListBlockBegins :
    /\ freeList = FreeListAllocator(b, FreeListBlockSize)
    /\ freeListRet = [op |-> "none", ptr |-> nullptr, size |-> 0,
                      tighter |-> FALSE, freed |-> << >>]
    /\ freeListLive = {}

\* allocate(size)
FreeListAllocate(size) ==
  /\ LET r    == FreeListAllocate_result(freeList, size)
         list == freeList.m_FreeList
         i    == FirstFit(list, size)
     IN  /\ freeList' = r.fl
         \* tighter: a node later in the list fits the request more tightly
         \* than the node that served it
         /\ freeListRet' =
              [op |-> "allocate", ptr |-> r.ptr, size |-> size,
               tighter |-> /\ i # 0
                           /\ \E j \in Fitting(list, size) :
                                j > i /\ list[j].size < list[i].size,
               freed |-> << >>]
         /\ freeListLive' = IF r.ptr = nullptr THEN freeListLive
                            ELSE freeListLive \cup {r.ptr}
  /\ UNCHANGED restOfFreeList

\* deallocate(ptr, num_bytes) of a live block; freed lists the blocks given
\* back since the last allocate, as [ptr, size of the header].
FreeListDeallocate(ptr) ==
  /\ ptr \in freeListLive
  /\ freeList' = FreeListDeallocate_result(freeList, ptr)
  /\ freeListRet' =
       [op |-> "deallocate", ptr |-> ptr, size |-> 0, tighter |-> FALSE,
        freed |-> Append(freeListRet.freed,
                         [ptr  |-> ptr,
                          size |-> freeList.headers[ptr - FreeListHeaderSize]])]
  /\ freeListLive' = freeListLive \ {ptr}
  /\ UNCHANGED restOfFreeList

\* Every address inside a block the behaviours construct.
FreeListPointers ==
  UNION {b .. b + FreeListBlockSize : b \in FreeListBlockBegins}

NextFreeList ==
  \/ \E size \in FreeListSizes : FreeListAllocate(size)
  \/ \E ptr \in FreeListPointers : FreeListDeallocate(ptr)

InitFreeListOnly ==
  /\ InitFreeList
  /\ InitDenseMap
  /\ NoSizes
  /\ NoPool
  /\ NoStack
  /\ NoLinear
  /\ NoHeap
  /\ NoRing
  /\ NoTable
  /\ NoJson
  /\ NoTemp

SpecFreeList == InitFreeListOnly /\ [][NextFreeList]_vars

(***************************************************************************)
(* The LIFO arena (bf_stack_allocator.hpp).  headers holds the StackHeader *)
(* written before every payload, by payload address.                       *)
(***************************************************************************)
\* sizeof(StackHeader) and alignof(StackHeader): two std::size_t.
StackHeaderSize == 16

StackHeaderAlign == 8

\* Size of the block the arena is constructed over.
StackBlockSize == 96

\* Where the block may lie.
StackBlockBegins == {256}

\* The sizes the client asks for.
StackSizes == {5, 8, 24}

\* StackAllocator(memory_block, memory_size)
StackAllocator(memory_block, memory_size) ==
  [m_MemoryBlockBegin |-> memory_block,
   m_MemoryBlockEnd   |-> memory_block + memory_size,
   m_StackPtr         |-> memory_block,
   m_MemoryLeft       |-> memory_size,
   headers            |-> << >>]

usedMemoryLeft(s) == s.m_MemoryLeft
usedMemory(s) == MemoryManager_size(s) - s.m_MemoryLeft

\* Bytes from address p up to the next address a header can lie at.
StackPadding(p) ==
  (StackHeaderAlign - (p % StackHeaderAlign)) % StackHeaderAlign

\* allocate(size): the arena afterwards and the pointer returned.
StackAllocate_result(s, size) ==
  LET pad  == StackPadding(s.m_StackPtr)
      full == pad + StackHeaderSize + size
      ptr  == s.m_StackPtr + pad + StackHeaderSize
  IN  IF full > s.m_MemoryLeft
      THEN [stack |-> s, ptr |-> nullptr]
      ELSE [stack |-> [s EXCEPT
                         !.headers = Store(@, ptr, [block_size |-> size,
                                                    align_size |-> pad]),
                         !.m_StackPtr = @ + full,
                         !.m_MemoryLeft = @ - full],
            ptr   |-> ptr]

\* The assertion of deallocate: the block ends where the arena's offset is.
deallocateAssertionNone(s, ptr) == TRUE
deallocateAssertion(s, ptr) ==
  ptr + s.headers[ptr].block_size = s.m_StackPtr

\* deallocate(ptr, num_bytes) with the assertion holding: the offset goes
\* back over the payload, the header and the padding.
StackDeallocate_result(s, ptr) ==
  LET header == s.headers[ptr]
      full   == header.align_size + StackHeaderSize + header.block_size
  IN  [s EXCEPT !.headers = [x \in DOMAIN @ \ {ptr} |-> @[x]],
                !.m_StackPtr = @ - full,
                !.m_MemoryLeft = @ + full]

InitStack ==
  \E b \in StackBlockBegins :
    /\ stack = StackAllocator(b, StackBlockSize)
    /\ stackRet = [op |-> "none", ptr |-> nullptr, used |-> 0, run |-> 0,
                   padded |-> FALSE]
    /\ stackLive = << >>

\* allocate(size); the client notes usedMemory() from before the call.
StackAllocate(size) ==
  /\ stackRet.op # "abort"
  /\ LET r == StackAllocate_result(stack, size)
     IN  /\ stack' = r.stack
         /\ stackRet' = [op |-> "allocate", ptr |-> r.ptr,
                         used |-> usedMemory(stack), run |-> 0,
                         padded |-> FALSE]
         /\ stackLive' = IF r.ptr = nullptr THEN stackLive
                         ELSE Append(stackLive,
                                     [ptr |-> r.ptr, size |-> size,
                                      used |-> usedMemory(stack)])
  /\ UNCHANGED restOfStack

\* The blocks of live other than the one at ptr.
Without(live, ptr) == SelectSeq(live, LAMBDA b : b.ptr # ptr)

\* deallocate(ptr, size) of a live block, the assertion holding.  run counts
\* the deallocations since the last allocate, padded tells whether one of
\* their blocks had padding, used is usedMemory() from before the block's
\* allocate.
StackDeallocate(ptr) ==
  /\ stackRet.op # "abort"
  /\ \E b \in 1 .. Len(stackLive) : stackLive[b].ptr = ptr
  /\ deallocateAssertion(stack, ptr)
  /\ stack' = StackDeallocate_result(stack, ptr)
  /\ LET b == CHOOSE b \in 1 .. Len(stackLive) : stackLive[b].ptr = ptr
     IN  stackRet' = [op |-> "deallocate", ptr |-> ptr,
                      used |-> stackLive[b].used,
                      run |-> stackRet.run + 1,
                      padded |-> \/ stackRet.padded
                                 \/ stack.headers[ptr].align_size > 0]
  /\ stackLive' = Without(stackLive, ptr)
  /\ UNCHANGED restOfStack

\* deallocate(ptr, size) of a live block, the assertion failing: the
\* process is aborted.
StackDeallocateAborts(ptr) ==
  /\ stackRet.op # "abort"
  /\ \E b \in 1 .. Len(stackLive) : stackLive[b].ptr = ptr
  /\ ~deallocateAssertion(stack, ptr)
  /\ stackRet' = [op |-> "abort", ptr |-> ptr, used |-> usedMemory(stack),
                  run |-> 0, padded |-> FALSE]
  /\ UNCHANGED <<stack, stackLive, restOfStack>>

\* Every address inside a block the behaviours construct.
StackPointers == UNION {b .. b + StackBlockSize : b \in StackBlockBegins}

NextStack ==
  \/ \E size \in StackSizes : StackAllocate(size)
  \/ \E ptr \in StackPointers : StackDeallocate(ptr)
  \/ \E ptr \in StackPointers : StackDeallocateAborts(ptr)

InitStackOnly ==
  /\ InitStack
  /\ InitDenseMap
  /\ NoSizes
  /\ NoPool
  /\ NoFreeList
  /\ NoLinear
  /\ NoHeap
  /\ NoRing
  /\ NoTable
  /\ NoJson
  /\ NoTemp

SpecStack == InitStackOnly /\ [][NextStack]_vars

(***************************************************************************)
(* The bump arena (bf_linear_allocator.hpp) and its scope helper.  The     *)
(* arena keeps one offset into its block; a LinearAllocatorScope keeps a   *)
(* pointer to the arena (here the address of the arena's block) and the    *)
(* offset it found.                                                        *)
(***************************************************************************)
\* Size of the block the arena is constructed over.
LinearBlockSize == 40

\* Where the block may lie.
LinearBlockBegins == {512}

\* The sizes the client asks for.
LinearSizes == {8, 24}

\* The most scopes alive at a time.
MaxScopes == 2

\* LinearAllocator(memory_block, memory_block_size)
LinearAllocator(memory_block, block_size) ==
  [m_MemoryBlockBegin |-> memory_block,
   m_MemoryBlockEnd   |-> memory_block + block_size,
   m_MemoryOffset     |-> 0]

\* size_t usedMemory() const { return m_MemoryOffset; }
LinearAllocator_usedMemory(a) == a.m_MemoryOffset

\* char* currentBlock() const
currentBlock(a) == a.m_MemoryBlockBegin + a.m_MemoryOffset

\* The bytes a request of n bytes takes from the block: allocate(size) is
\* given no alignment and LinearAllocator::header_size is 0.
align_pad(n) == n

\* allocate(size) that advances the offset before it looks at the block's
\* size, and leaves it advanced.
LinearAllocate_resultAdvanceFirst(a, size) ==
  LET b == [a EXCEPT !.m_MemoryOffset = @ + align_pad(size)]
  IN  IF b.m_MemoryOffset > MemoryManager_size(a)
      THEN [linear |-> b, ptr |-> nullptr]
      ELSE [linear |-> b, ptr |-> currentBlock(a)]

\* allocate(size): the arena afterwards and the pointer returned.
LinearAllocate_result(a, size) ==
  IF a.m_MemoryOffset + align_pad(size) > MemoryManager_size(a)
  THEN [linear |-> a, ptr |-> nullptr]
  ELSE [linear |-> [a EXCEPT !.m_MemoryOffset = @ + align_pad(size)],
        ptr    |-> currentBlock(a)]

\* deallocate(ptr, num_bytes): nothing.
LinearDeallocate_result(a, ptr) == a

\* clear()
LinearClear_result(a) == [a EXCEPT !.m_MemoryOffset = 0]

\* LinearAllocatorScope(LinearAllocator& allocator)
LinearAllocatorScope(a) ==
  [m_Allocator |-> a.m_MemoryBlockBegin, m_OldOffset |-> a.m_MemoryOffset]

\* LinearAllocatorScope(LinearAllocatorScope&& rhs): the new scope and what
\* is left of rhs.
LinearAllocatorScope_move(rhs) ==
  [to   |-> [m_Allocator |-> rhs.m_Allocator, m_OldOffset |-> rhs.m_OldOffset],
   from |-> [m_Allocator |-> nullptr, m_OldOffset |-> rhs.m_OldOffset]]

\* ~LinearAllocatorScope() that puts the arena back to its beginning.
LinearAllocatorScope_destroyClears(scope, a) ==
  IF scope.m_Allocator # nullptr
  THEN [a EXCEPT !.m_MemoryOffset = 0]
  ELSE a

\* ~LinearAllocatorScope(): the arena afterwards.
LinearAllocatorScope_destroy(scope, a) ==
  IF scope.m_Allocator # nullptr
  THEN [a EXCEPT !.m_MemoryOffset = scope.m_OldOffset]
  ELSE a

\* The blocks of live that lie below the offset of arena a: the others were
\* invalidated when the offset went back.
StillLive(live, a) ==
  SelectSeq(live, LAMBDA b : b.ptr + b.size <= currentBlock(a))

\* What a call other than the destruction of a scope leaves in linearRet
\* for the scope.
NoScope == [m_Allocator |-> nullptr, m_OldOffset |-> 0]

InitLinear ==
  \E b \in LinearBlockBegins :
    /\ linear = LinearAllocator(b, LinearBlockSize)
    /\ linearRet = [op |-> "none", ptr |-> nullptr, size |-> 0, offset |-> 0,
                    scope |-> NoScope, entered |-> 0]
    /\ linearLive = << >>
    /\ linearScopes = << >>

\* allocate(size); offset is m_MemoryOffset from before the call.
LinearAllocate(size) ==
  /\ LET r == LinearAllocate_result(linear, size)
     IN  /\ linear' = r.linear
         /\ linearRet' = [op |-> "allocate", ptr |-> r.ptr, size |-> size,
                          offset |-> linear.m_MemoryOffset,
                          scope |-> NoScope, entered |-> 0]
         /\ linearLive' = IF r.ptr = nullptr THEN linearLive
                          ELSE Append(linearLive,
                                      [ptr |-> r.ptr, size |-> size])
  /\ UNCHANGED <<linearScopes, restOfLinear>>

\* deallocate(ptr, size) of a block handed out: its bytes stay taken.
LinearDeallocate(ptr) ==
  /\ \E b \in 1 .. Len(linearLive) : linearLive[b].ptr = ptr
  /\ linear' = LinearDeallocate_result(linear, ptr)
  /\ linearRet' = [op |-> "deallocate", ptr |-> ptr, size |-> 0,
                   offset |-> linear.m_MemoryOffset,
                   scope |-> NoScope, entered |-> 0]
  /\ UNCHANGED <<linearLive, linearScopes, restOfLinear>>

\* clear()
LinearClear ==
  /\ linear.m_MemoryOffset > 0
  /\ linear' = LinearClear_result(linear)
  /\ linearRet' = [op |-> "clear", ptr |-> nullptr, size |-> 0,
                   offset |-> linear.m_MemoryOffset,
                   scope |-> NoScope, entered |-> 0]
  /\ linearLive' = << >>
  /\ UNCHANGED <<linearScopes, restOfLinear>>

\* A scope is constructed over the arena.  entered is the client's note of
\* usedMemory() at that time; a scope made by a move has the note of the
\* scope it was made from.
ScopeEnter ==
  /\ Len(linearScopes) < MaxScopes
  /\ linearScopes' =
       Append(linearScopes,
              [scope   |-> LinearAllocatorScope(linear),
               entered |-> LinearAllocator_usedMemory(linear)])
  /\ linearRet' = [op |-> "scopeEnter", ptr |-> nullptr, size |-> 0,
                   offset |-> linear.m_MemoryOffset,
                   scope |-> NoScope, entered |-> 0]
  /\ UNCHANGED <<linear, linearLive, restOfLinear>>

\* A scope is move-constructed from the youngest scope alive.
ScopeMove ==
  /\ linearScopes # << >>
  /\ Len(linearScopes) < MaxScopes
  /\ LET n   == Len(linearScopes)
         rhs == linearScopes[n]
         m   == LinearAllocatorScope_move(rhs.scope)
     IN  linearScopes' =
           Append([linearScopes EXCEPT ![n].scope = m.from],
                  [scope |-> m.to, entered |-> rhs.entered])
  /\ linearRet' = [op |-> "scopeMove", ptr |-> nullptr, size |-> 0,
                   offset |-> linear.m_MemoryOffset,
                   scope |-> NoScope, entered |-> 0]
  /\ UNCHANGED <<linear, linearLive, restOfLinear>>

\* The youngest scope alive is destroyed (scopes are automatic objects:
\* they are destroyed in the reverse order of their construction).
ScopeExit ==
  /\ linearScopes # << >>
  /\ LET n    == Len(linearScopes)
         last == linearScopes[n]
         a    == LinearAllocatorScope_destroy(last.scope, linear)
     IN  /\ linear' = a
         /\ linearScopes' = SubSeq(linearScopes, 1, n - 1)
         /\ linearRet' = [op |-> "scopeExit", ptr |-> nullptr, size |-> 0,
                          offset |-> linear.m_MemoryOffset,
                          scope |-> last.scope, entered |-> last.entered]
         /\ linearLive' = StillLive(linearLive, a)
  /\ UNCHANGED restOfLinear

\* Every address inside a block the behaviours construct.
LinearPointers == UNION {b .. b + LinearBlockSize : b \in LinearBlockBegins}

NextLinear ==
  \/ \E size \in LinearSizes : LinearAllocate(size)
  \/ \E ptr \in LinearPointers : LinearDeallocate(ptr)
  \/ LinearClear
  \/ ScopeEnter
  \/ ScopeMove
  \/ ScopeExit

InitLinearOnly ==
  /\ InitLinear
  /\ InitDenseMap
  /\ NoSizes
  /\ NoPool
  /\ NoFreeList
  /\ NoStack
  /\ NoHeap
  /\ NoRing
  /\ NoTable
  /\ NoJson
  /\ NoTemp

SpecLinear == InitLinearOnly /\ [][NextLinear]_vars

(***************************************************************************)
(* The array API of IMemoryManager (bf_imemory_manager.hpp), for a         *)
(* trivially copyable T whose T() is 0.  The heap is the set of arrays     *)
(* alive, by the address of their first element: the ArrayHeader in front  *)
(* of it and the elements.  The private allocateAligned either gives the   *)
(* address of a new block or a null pointer; which, is an input of a call. *)
(***************************************************************************)
\* The most elements the client asks an array to have.
MaxArrayElements == 3

\* The addresses the allocator may give a new array.
ArrayAddresses == {1024, 2048}

\* alignof(T)
ArrayAlignments == {4}

\* The values the client stores; T() is the first.
DefaultElement == 0

ArrayElements == {DefaultElement, 7}

\* The value of an element nothing was constructed in.
Indeterminate == -1

EmptyHeap == [ptr \in {} |-> 0]

\* grabHeader(sizeof(ArrayHeader), ptr)
grabHeader(h, ptr) == h[ptr].header

\* allocateAligned(sizeof(ArrayHeader), sizeof(T) * num_elements, alignment)
\* with the outcome given: the heap afterwards, its header unwritten.
allocateAligned(h, num_elements, given) ==
  IF given = nullptr THEN h
  ELSE Store(h, given,
             [header |-> [size |-> Indeterminate, alignment |-> Indeterminate],
              elems  |-> [i \in 1 .. num_elements |-> Indeterminate]])

\* deallocateAligned(sizeof(ArrayHeader), ptr, size, alignment)
deallocateAligned(h, ptr) == [x \in DOMAIN h \ {ptr} |-> h[x]]

\* allocateArrayTrivial<T>(num_elements, array_alignment)
allocateArrayTrivial(h, num_elements, array_alignment, given) ==
  IF num_elements # 0
  THEN LET array_data == given
           h1         == allocateAligned(h, num_elements, given)
       IN  IF array_data # nullptr
           THEN [heap |-> [h1 EXCEPT ![array_data].header =
                             [size |-> num_elements,
                              alignment |-> array_alignment]],
                 ptr  |-> array_data]
           ELSE [heap |-> h1, ptr |-> array_data]
  ELSE [heap |-> h, ptr |-> nullptr]

\* allocateArray<T>(num_elements, array_alignment)
allocateArray(h, num_elements, array_alignment, given) ==
  IF num_elements # 0
  THEN LET r == allocateArrayTrivial(h, num_elements, array_alignment, given)
       IN  IF r.ptr # nullptr
           THEN [heap |-> [r.heap EXCEPT ![r.ptr].elems =
                             [i \in 1 .. num_elements |-> DefaultElement]],
                 ptr  |-> r.ptr]
           ELSE r
  ELSE [heap |-> h, ptr |-> nullptr]

\* arraySize(ptr)
arraySize(h, ptr) == grabHeader(h, ptr).size

\* deallocateArray(ptr)
deallocateArray(h, ptr) ==
  IF ptr # nullptr THEN deallocateAligned(h, ptr) ELSE h

\* arrayResize that gives the old array back before it asks for the new
\* one.
arrayResizeFreeFirst(h, old_ptr, num_elements, array_alignment, given) ==
  IF old_ptr = nullptr
  THEN allocateArray(h, num_elements, array_alignment, given)
  ELSE IF num_elements = 0
  THEN [heap |-> deallocateArray(h, old_ptr), ptr |-> nullptr]
  ELSE
    LET old_size == grabHeader(h, old_ptr).size
    IN  IF num_elements > old_size
        THEN LET r == allocateArrayTrivial(deallocateArray(h, old_ptr),
                                           num_elements, array_alignment,
                                           given)
             IN  IF r.ptr # nullptr
                 THEN [heap |-> [r.heap EXCEPT ![r.ptr].elems =
                                   [i \in 1 .. num_elements |->
                                      IF i <= old_size THEN h[old_ptr].elems[i]
                                      ELSE DefaultElement]],
                       ptr  |-> r.ptr]
                 ELSE r
        ELSE [heap |-> h, ptr |-> old_ptr]

\* arrayResize(old_ptr, num_elements, array_alignment): the heap afterwards
\* and the pointer returned.
arrayResize(h, old_ptr, num_elements, array_alignment, given) ==
  IF old_ptr = nullptr
  THEN allocateArray(h, num_elements, array_alignment, given)
  ELSE IF num_elements = 0
  THEN [heap |-> deallocateArray(h, old_ptr), ptr |-> nullptr]
  ELSE
    LET old_size == grabHeader(h, old_ptr).size
    IN  IF num_elements > old_size
        THEN LET r == allocateArrayTrivial(h, num_elements, array_alignment,
                                           given)
                 new_ptr == r.ptr
             IN  IF new_ptr # nullptr
                 THEN \* the old elements moved, the old array given back,
                      \* the new elements constructed
                      [heap |-> deallocateArray(
                                  [r.heap EXCEPT ![new_ptr].elems =
                                     [i \in 1 .. num_elements |->
                                        IF i <= old_size
                                        THEN h[old_ptr].elems[i]
                                        ELSE DefaultElement]],
                                  old_ptr),
                       ptr  |-> new_ptr]
                 ELSE [heap |-> r.heap, ptr |-> new_ptr]
        ELSE \* the allocation did not need to be resized
             [heap |-> h, ptr |-> old_ptr]

NoHeapCall ==
  [op |-> "none", old_ptr |-> nullptr, num_elements |-> 0, given |-> nullptr,
   ptr |-> nullptr, before |-> EmptyHeap]

InitHeap ==
  /\ heap = EmptyHeap
  /\ heapRet = NoHeapCall

\* What the allocator may answer a request with: no block, or a block at an
\* address no array alive lies at.
MayGive(given) == given = nullptr \/ given \in ArrayAddresses \ DOMAIN heap

\* allocateArray<T>(num_elements)
ArrayAllocate(num_elements, array_alignment, given) ==
  /\ MayGive(given)
  /\ LET r == allocateArray(heap, num_elements, array_alignment, given)
     IN  /\ heap' = r.heap
         /\ heapRet' = [op |-> "allocateArray", old_ptr |-> nullptr,
                        num_elements |-> num_elements, given |-> given,
                        ptr |-> r.ptr, before |-> heap]
  /\ UNCHANGED restOfHeap

\* array[i] = v by the client
ArrayStore(ptr, i, v) ==
  /\ ptr \in DOMAIN heap
  /\ i < arraySize(heap, ptr)
  /\ heap[ptr].elems[i + 1] # v
  /\ heap' = [heap EXCEPT ![ptr].elems[i + 1] = v]
  /\ heapRet' = [op |-> "store", old_ptr |-> ptr, num_elements |-> 0,
                 given |-> nullptr, ptr |-> ptr, before |-> heap]
  /\ UNCHANGED restOfHeap

\* arrayResize(old_ptr, num_elements) of an array alive or of a null pointer
ArrayResize(old_ptr, num_elements, array_alignment, given) ==
  /\ old_ptr = nullptr \/ old_ptr \in DOMAIN heap
  /\ MayGive(given)
  /\ LET r == arrayResize(heap, old_ptr, num_elements, array_alignment, given)
     IN  /\ heap' = r.heap
         /\ heapRet' = [op |-> "arrayResize", old_ptr |-> old_ptr,
                        num_elements |-> num_elements, given |-> given,
                        ptr |-> r.ptr, before |-> heap]
  /\ UNCHANGED restOfHeap

\* deallocateArray(ptr) of an array alive
ArrayDeallocate(ptr) ==
  /\ ptr \in DOMAIN heap
  /\ heap' = deallocateArray(heap, ptr)
  /\ heapRet' = [op |-> "deallocateArray", old_ptr |-> ptr,
                 num_elements |-> 0, given |-> nullptr, ptr |-> nullptr,
                 before |-> heap]
  /\ UNCHANGED restOfHeap

\* What the allocator's answers and the client's pointers are taken from.
ArrayPointers == ArrayAddresses \cup {nullptr}

NextHeap ==
  \/ \E n \in 0 .. MaxArrayElements, a \in ArrayAlignments,
        given \in ArrayPointers :
       ArrayAllocate(n, a, given)
  \/ \E ptr \in ArrayAddresses, i \in 0 .. MaxArrayElements - 1,
        v \in ArrayElements :
       ArrayStore(ptr, i, v)
  \/ \E old_ptr \in ArrayPointers, n \in 0 .. MaxArrayElements,
        a \in ArrayAlignments, given \in ArrayPointers :
       ArrayResize(old_ptr, n, a, given)
  \/ \E ptr \in ArrayAddresses : ArrayDeallocate(ptr)

InitHeapOnly ==
  /\ InitHeap
  /\ InitDenseMap
  /\ NoSizes
  /\ NoPool
  /\ NoFreeList
  /\ NoStack
  /\ NoLinear
  /\ NoRing
  /\ NoTable
  /\ NoJson
  /\ NoTemp

SpecHeap == InitHeapOnly /\ [][NextHeap]_vars

(***************************************************************************)
(* The ring buffers (bifrost_ring_buffer.hpp).  buffer is the storage by   *)
(* index; a slot that holds no constructed element is Indeterminate.  The  *)
(* member wrap is WrapFixed<N> (its N) or WrapDynamic (its capacity).      *)
(***************************************************************************)
FixedRingSizes == {1, 2, 3, 4}    \* the N of FixedRingBuffer<T, N>
RingInitialSizes == {1, 2, 3}     \* initial_size of RingBuffer<T>
RingElements == {1, 2}            \* the elements pushed
\* The largest capacity RingBuffer<T> grows to.
MaxRingCapacity == 8

\* std::size_t is 64 bits wide here: a value is its four 16-bit words, most
\* significant first.
SizeT(n) == <<0, 0, n \div HalfWordModulus, n % HalfWordModulus>>

\* x - y in std::size_t (wrapping modulo 2^64), for x and y below 2^31.
SizeTSub(x, y) ==
  IF x >= y
  THEN SizeT(x - y)
  ELSE LET d == (y - x) - 1
       IN  <<HalfWordModulus - 1, HalfWordModulus - 1,
             (HalfWordModulus - 1) - (d \div HalfWordModulus),
             (HalfWordModulus - 1) - (d % HalfWordModulus)>>

\* a & b for natural numbers.
RECURSIVE BitAnd(_, _)
BitAnd(a, b) ==
  IF a = 0 \/ b = 0
  THEN 0
  ELSE (a % 2) * (b % 2) + 2 * BitAnd(a \div 2, b \div 2)

WrapFixed(N, number) ==
  IF BitAnd(N, N - 1) = 0
  THEN BitAnd(number, N - 1)
  ELSE number % N

WrapDynamic(wrap_capacity, number) == number % wrap_capacity

wrap(r, number) ==
  IF r.wrap.kind = "fixed"
  THEN WrapFixed(r.wrap.N, number)
  ELSE WrapDynamic(r.wrap.capacity, number)

\* Storage of n slots, none constructed.
RawStorage(n) == [i \in 0..(n - 1) |-> Indeterminate]

RingBufferImpl(storage, w) ==
  [buffer |-> storage, head |-> 0, tail |-> 0, wrap |-> w]

FixedRingBuffer(N) ==
  RingBufferImpl(RawStorage(N), [kind |-> "fixed", N |-> N])

RingBuffer(initial_size) ==
  RingBufferImpl(RawStorage(initial_size),
                 [kind |-> "dynamic", capacity |-> initial_size])

RingBuffer_capacity(r) ==
  IF r.wrap.kind = "fixed" THEN r.wrap.N ELSE r.wrap.capacity

RingBufferImpl_size(r) == SizeTSub(r.tail, r.head)

isEmpty(r) == r.head = r.tail

isFull(r) == wrap(r, r.tail + 1) = r.head

\* RingBufferImpl::push: [threw, ring].
RingBufferImpl_push(r, element) ==
  IF isFull(r)
  THEN [threw |-> TRUE, ring |-> r]
  ELSE [threw |-> FALSE,
        ring  |-> [r EXCEPT !.buffer[r.tail] = element,
                            !.tail = wrap(r, r.tail + 1)]]

\* RingBufferImpl::pop: [threw, element, ring].
RingBufferImpl_pop(r) ==
  IF isEmpty(r)
  THEN [threw |-> TRUE, element |-> Indeterminate, ring |-> r]
  ELSE [threw   |-> FALSE,
        element |-> r.buffer[r.head],
        ring    |-> [r EXCEPT !.buffer[r.head] = Indeterminate,
                              !.head = wrap(r, r.head + 1)]]

\* RingBufferImpl::forEach: the indices fn is called with, in order.
RECURSIVE forEachFrom(_, _)
forEachFrom(r, i) ==
  IF i = r.tail THEN << >> ELSE <<i>> \o forEachFrom(r, wrap(r, i + 1))

forEach(r) == forEachFrom(r, r.head)

\* FixedRingBuffer::push: [threw, ring]; it returns true when it returns.
FixedRingBuffer_push(r, element) ==
  IF isFull(r)
  THEN LET popped == RingBufferImpl_pop(r)
       IN  IF popped.threw
           THEN [threw |-> TRUE, ring |-> r]
           ELSE RingBufferImpl_push(popped.ring, element)
  ELSE RingBufferImpl_push(r, element)

\* The growth step of RingBuffer::push, with an allocation that succeeds:
\* every element goes to the slot of the same index in the new storage.
RingBuffer_grow(r) ==
  LET new_capacity == RingBuffer_capacity(r) * 2
      moved        == forEach(r)
      new_buffer   == [i \in 0..(new_capacity - 1) |->
                         IF \E k \in 1..Len(moved) : moved[k] = i
                         THEN r.buffer[i]
                         ELSE Indeterminate]
      rehead       == [r EXCEPT !.buffer = new_buffer,
                                !.wrap.capacity = new_capacity,
                                !.head = 0]
  IN  [rehead EXCEPT !.tail = rehead.tail - rehead.head]

\* RingBuffer::push: [threw, ring].
RingBuffer_push(r, element) ==
  IF isFull(r)
  THEN RingBufferImpl_push(RingBuffer_grow(r), element)
  ELSE RingBufferImpl_push(r, element)

\* The elements the buffer holds, oldest first.
RingContents(r) == [k \in 1..Len(forEach(r)) |-> r.buffer[forEach(r)[k]]]

\* The last n elements of s (all of it when it has no more than n).
LastOf(s, n) ==
  IF Len(s) <= n THEN s ELSE SubSeq(s, Len(s) - n + 1, Len(s))

NoRingCall == [op |-> "none", threw |-> FALSE, element |-> Indeterminate]

InitFixedRing ==
  /\ ring \in {FixedRingBuffer(N) : N \in FixedRingSizes}
  /\ ringRet = NoRingCall
  /\ ringGhost = << >>

InitRing ==
  /\ ring \in {RingBuffer(initial_size) : initial_size \in RingInitialSizes}
  /\ ringRet = NoRingCall
  /\ ringGhost = << >>

\* FixedRingBuffer::push(element): a push that completes leaves the newest
\* N - 1 elements pushed and not popped.
FixedPush(element) ==
  /\ ring.wrap.kind = "fixed"
  /\ LET r == FixedRingBuffer_push(ring, element)
     IN  /\ ring' = r.ring
         /\ ringRet' = [op |-> "push", threw |-> r.threw,
                        element |-> element]
         /\ ringGhost' = IF r.threw
                         THEN ringGhost
                         ELSE LastOf(Append(ringGhost, element),
                                     ring.wrap.N - 1)
  /\ UNCHANGED restOfRing

\* RingBuffer::push(element), while the capacity stays within the bound.
RingPush(element) ==
  /\ ring.wrap.kind = "dynamic"
  /\ isFull(ring) => RingBuffer_capacity(ring) * 2 <= MaxRingCapacity
  /\ LET r == RingBuffer_push(ring, element)
     IN  /\ ring' = r.ring
         /\ ringRet' = [op |-> "push", threw |-> r.threw,
                        element |-> element]
         /\ ringGhost' = IF r.threw
                         THEN ringGhost
                         ELSE Append(ringGhost, element)
  /\ UNCHANGED restOfRing

\* pop() of either buffer.
RingPop ==
  /\ LET r == RingBufferImpl_pop(ring)
     IN  /\ ring' = r.ring
         /\ ringRet' = [op |-> "pop", threw |-> r.threw,
                        element |-> r.element]
         /\ ringGhost' = IF ringGhost = << >>
                         THEN ringGhost
                         ELSE Tail(ringGhost)
  /\ UNCHANGED restOfRing

NextFixedRing ==
  \/ \E element \in RingElements : FixedPush(element)
  \/ RingPop

NextRing ==
  \/ \E element \in RingElements : RingPush(element)
  \/ RingPop

InitFixedRingOnly ==
  /\ InitFixedRing
  /\ InitDenseMap
  /\ NoSizes
  /\ NoPool
  /\ NoFreeList
  /\ NoStack
  /\ NoLinear
  /\ NoHeap
  /\ NoTable
  /\ NoJson
  /\ NoTemp

InitRingOnly ==
  /\ InitRing
  /\ InitDenseMap
  /\ NoSizes
  /\ NoPool
  /\ NoFreeList
  /\ NoStack
  /\ NoLinear
  /\ NoHeap
  /\ NoTable
  /\ NoJson
  /\ NoTemp

SpecFixedRing == InitFixedRingOnly /\ [][NextFixedRing]_vars

SpecRing == InitRingOnly /\ [][NextRing]_vars

(***************************************************************************)
(* The hash table (bifrost_hash_table.hpp): HashTable<int, int,            *)
(* initial_size> with a hasher that returns the key, as std::hash<int>     *)
(* does.  A node is named by its index in m_Table; the key and value of a  *)
(* node that is not OCCUPIED are Indeterminate.                            *)
(***************************************************************************)
MAX_PROBES == 16
TableInitialSize == 4             \* initial_size
TableKeyChoices == {0, 3, 4, 7, 8}  \* at capacity 4: 0, 4, 8 share index 0,
                                    \* 3 and 7 share index 3
TableValues == {7}                \* the values inserted
\* The largest capacity the table is taken to.
MaxTableCapacity == 8
NoNode == -1                      \* HashT* nullptr

Min(a, b) == IF a <= b THEN a ELSE b

HashNode == [m_Key |-> Indeterminate, m_Value |-> Indeterminate,
             m_State |-> "UNUSED"]

isWritable(node) == node.m_State # "OCCUPIED"

isFilled(node) == node.m_State = "OCCUPIED"

deleteNode(node) ==
  IF node.m_State = "OCCUPIED"
  THEN [m_Key |-> Indeterminate, m_Value |-> Indeterminate,
        m_State |-> "DELETED"]
  ELSE node

HashNode_set(node, key, value) ==
  [deleteNode(node) EXCEPT !.m_Key = key, !.m_Value = value,
                           !.m_State = "OCCUPIED"]

NewTable(n) == [m_Table |-> [i \in 0..(n - 1) |-> HashNode], m_Capacity |-> n]

HashTable == NewTable(TableInitialSize)

hash(key) == key

index(t, key) ==
  IF BitAnd(TableInitialSize, TableInitialSize - 1) # 0
  THEN hash(key) % t.m_Capacity
  ELSE BitAnd(hash(key), t.m_Capacity - 1)

\* The loop of insert: the first writable node among the MAX_PROBES nodes
\* from index(key) that lie within the table, NoNode when there is none.
RECURSIVE insertProbe(_, _, _)
insertProbe(t, hashCode, i) ==
  IF i >= MAX_PROBES \/ hashCode >= t.m_Capacity
  THEN NoNode
  ELSE IF isWritable(t.m_Table[hashCode])
       THEN hashCode
       ELSE insertProbe(t, hashCode + 1, i + 1)

\* HashTable::insert and HashTable::rehash: the table afterwards.
RECURSIVE insert(_, _, _)
RECURSIVE rehashFrom(_, _, _)
rehashFrom(t, oldTable, i) ==
  IF i >= oldTable.m_Capacity
  THEN t
  ELSE IF ~isWritable(oldTable.m_Table[i])
       THEN rehashFrom(insert(t, oldTable.m_Table[i].m_Key,
                              oldTable.m_Table[i].m_Value),
                       oldTable, i + 1)
       ELSE rehashFrom(t, oldTable, i + 1)

rehash(t) == rehashFrom(NewTable(t.m_Capacity * 2), t, 0)

insert(t, key, value) ==
  LET node == insertProbe(t, index(t, key), 0)
  IN  IF node # NoNode
      THEN [t EXCEPT !.m_Table[node] = HashNode_set(@, key, value)]
      ELSE insert(rehash(t), key, value)

\* The loop of getNode leaves at the first node that is not OCCUPIED.
RECURSIVE getNodeFrom(_, _, _, _)
getNodeFrom(t, key, hashCode, hashCodeMax) ==
  IF hashCode < hashCodeMax /\ t.m_Table[hashCode].m_State = "OCCUPIED"
  THEN IF isFilled(t.m_Table[hashCode]) /\ t.m_Table[hashCode].m_Key = key
       THEN hashCode
       ELSE getNodeFrom(t, key, hashCode + 1, hashCodeMax)
  ELSE NoNode

getNode(t, key) ==
  getNodeFrom(t, key, index(t, key),
              Min(index(t, key) + MAX_PROBES, t.m_Capacity))

HashTable_has(t, key) == getNode(t, key) # NoNode

\* The loop of remove passes DELETED nodes and leaves at an UNUSED one or at
\* the end of the probe range; leaving the loop is the throw.  The node it
\* finds, NoNode when it throws.
RECURSIVE removeFrom(_, _, _, _)
removeFrom(t, key, hashCode, hashCodeMax) ==
  IF hashCode < hashCodeMax /\ t.m_Table[hashCode].m_State # "UNUSED"
  THEN IF isFilled(t.m_Table[hashCode]) /\ t.m_Table[hashCode].m_Key = key
       THEN hashCode
       ELSE removeFrom(t, key, hashCode + 1, hashCodeMax)
  ELSE NoNode

HashTable_remove(t, key) ==
  LET node == removeFrom(t, key, index(t, key),
                         Min(index(t, key) + MAX_PROBES, t.m_Capacity))
  IN  IF node # NoNode
      THEN [threw |-> FALSE,
            table |-> [t EXCEPT !.m_Table[node] = deleteNode(@)]]
      ELSE [threw |-> TRUE, table |-> t]

NoTableCall == [op |-> "none", key |-> 0, result |-> FALSE]

InitTable ==
  /\ table = HashTable
  /\ tableRet = NoTableCall
  /\ tableKeys = {}

\* insert(key, value) of a key the table does not hold, while the capacity
\* stays within the bound.
TableInsert(key, value) ==
  /\ key \notin tableKeys
  /\ insert(table, key, value).m_Capacity <= MaxTableCapacity
  /\ table' = insert(table, key, value)
  /\ tableRet' = [op |-> "insert", key |-> key, result |-> TRUE]
  /\ tableKeys' = tableKeys \cup {key}
  /\ UNCHANGED restOfTable

\* remove(key) of a key the table holds.
TableRemove(key) ==
  /\ key \in tableKeys
  /\ table' = HashTable_remove(table, key).table
  /\ tableRet' = [op |-> "remove", key |-> key,
                  result |-> ~HashTable_remove(table, key).threw]
  /\ tableKeys' = tableKeys \ {key}
  /\ UNCHANGED restOfTable

\* has(key), which is get(key) != nullptr, and find(key) != end().
TableHas(key) ==
  /\ tableRet' = [op |-> "has", key |-> key, result |-> HashTable_has(table, key)]
  /\ UNCHANGED <<table, tableKeys>>
  /\ UNCHANGED restOfTable

NextTable ==
  \/ \E key \in TableKeyChoices, value \in TableValues :
        TableInsert(key, value)
  \/ \E key \in TableKeyChoices : TableRemove(key)
  \/ \E key \in TableKeyChoices : TableHas(key)

InitTableOnly ==
  /\ InitTable
  /\ InitDenseMap
  /\ NoSizes
  /\ NoPool
  /\ NoFreeList
  /\ NoStack
  /\ NoLinear
  /\ NoHeap
  /\ NoRing
  /\ NoJson
  /\ NoTemp

SpecTable == InitTableOnly /\ [][NextTable]_vars

(***************************************************************************)
(* The JSON reader (bifrost_json.c).  The source is a C string: a sequence *)
(* of characters followed by a terminator that is not part of it;          *)
(* current_location is an index from 1, source_end is Len(source) + 1.     *)
(* line_no and the error text are left out: nothing reads them.            *)
(***************************************************************************)
\* The longest source parsed.
MaxSourceLength == 3
JsonChars == {"[", "]", "{", "}", "\"", ":", ",", "1"}
NUL == "\\0"

BF_JSON_L_CURLY == "{"
BF_JSON_R_CURLY == "}"
BF_JSON_L_SQR_BOI == "["
BF_JSON_R_SQR_BOI == "]"
BF_JSON_COMMA == ","
BF_JSON_QUOTE == "\""
BF_JSON_COLON == ":"
BF_JSON_TRUE == "t"
BF_JSON_FALSE == "f"
BF_JSON_NULL == "n"
BF_JSON_NUMBER == "#"
BF_JSON_EOF == "!"

JsonSources == UNION {[1..n -> JsonChars] : n \in 0..MaxSourceLength}

source_end(c) == Len(c.source) + 1

bfJsonCurrentChar(c) ==
  IF c.current_location < source_end(c)
  THEN c.source[c.current_location]
  ELSE NUL

bfJsonIncrement(c) ==
  IF c.current_location < source_end(c)
  THEN [c EXCEPT !.current_location = @ + 1]
  ELSE c

bfJsonIsSpace(character) == character \in {" ", "\t", "\n", "\r"}

RECURSIVE bfJsonSkipSpace(_)
bfJsonSkipSpace(c) ==
  IF c.current_location < source_end(c) /\ bfJsonIsSpace(bfJsonCurrentChar(c))
  THEN bfJsonSkipSpace(bfJsonIncrement(c))
  ELSE c

\* Of the letters only t, f and n are told apart.
bfJsonIsKeyword(c) == bfJsonCurrentChar(c) \in {"(", ")", "_", "t", "f", "n"}

RECURSIVE bfJsonSkipKeyword(_)
bfJsonSkipKeyword(c) ==
  IF c.current_location < source_end(c) /\ bfJsonIsKeyword(c)
  THEN bfJsonSkipKeyword(bfJsonIncrement(c))
  ELSE c

bfJsonIsDigit(c) == bfJsonCurrentChar(c) \in {"1", "-", "+"}

bfJsonIsNumber(c) ==
  \/ bfJsonIsDigit(c)
  \/ bfJsonCurrentChar(c) \in {".", "P", "p", "X", "x"}
  \/ bfJsonCurrentChar(c) \in {"a", "b", "c", "d", "e", "f",
                               "A", "B", "C", "D", "E", "F"}

RECURSIVE bfJsonSkipNumber(_)
bfJsonSkipNumber(c) ==
  IF c.current_location < source_end(c) /\ bfJsonIsNumber(c)
  THEN bfJsonSkipNumber(bfJsonIncrement(c))
  ELSE c

RECURSIVE bfJsonSkipString(_)
bfJsonSkipString(c) ==
  IF c.current_location < source_end(c) /\ bfJsonCurrentChar(c) # BF_JSON_QUOTE
  THEN LET prev == bfJsonCurrentChar(c)
           next == bfJsonIncrement(c)
       IN  IF prev = "\\"
           THEN bfJsonSkipString(bfJsonIncrement(next))
           ELSE IF bfJsonCurrentChar(next) = BF_JSON_QUOTE
                THEN next
                ELSE bfJsonSkipString(next)
  ELSE c

bfJsonSetToken(c, type) == [c EXCEPT !.current_object = type]

\* token_end[0] = '\0': the closing quote, or the terminator itself.
TerminateString(c) ==
  IF c.current_location < source_end(c)
  THEN [c EXCEPT !.source[c.current_location] = NUL]
  ELSE c

bfJsonNextToken(c0) ==
  LET c == bfJsonSkipSpace(c0)
  IN  IF c.current_location < source_end(c)
      THEN IF bfJsonIsKeyword(c)
           THEN bfJsonSetToken(bfJsonSkipKeyword(c), bfJsonCurrentChar(c))
           ELSE IF bfJsonIsDigit(c)
           THEN bfJsonSetToken(bfJsonSkipNumber(c), BF_JSON_NUMBER)
           ELSE IF bfJsonCurrentChar(c) = BF_JSON_QUOTE
           THEN bfJsonSetToken(
                  bfJsonIncrement(
                    TerminateString(bfJsonSkipString(bfJsonIncrement(c)))),
                  BF_JSON_QUOTE)
           ELSE bfJsonIncrement(bfJsonSetToken(c, bfJsonCurrentChar(c)))
      ELSE bfJsonSetToken(c, BF_JSON_EOF)

bfJsonIs(c, type) == c.current_object = type

\* bfJsonEat: [ok, ctx]; ok = FALSE is the PARSE_ERROR callback and longjmp.
bfJsonEat(c, type, optional) ==
  IF bfJsonIs(c, type)
  THEN [ok |-> TRUE, ctx |-> bfJsonNextToken(c)]
  ELSE [ok |-> optional, ctx |-> c]

JsonValueTokens ==
  {BF_JSON_QUOTE, BF_JSON_TRUE, BF_JSON_FALSE, BF_JSON_NULL, BF_JSON_NUMBER}

Emit(event) == events' = Append(events, event)

GoTo(pc) == control' = [control EXCEPT !.pc = pc]

InnermostCall == control.calls[Len(control.calls)]

InitJson ==
  /\ ctx \in {[source |-> s, current_location |-> 1,
               current_object |-> BF_JSON_EOF] : s \in JsonSources}
  /\ control = [pc |-> "start", calls |-> << >>]
  /\ events = << >>

\* bfJsonParser_fromString up to its call of bfJsonInterpret.
FromString ==
  /\ control.pc = "start"
  /\ bfJsonEat(ctx, BF_JSON_EOF, FALSE).ok
  /\ ctx' = bfJsonEat(ctx, BF_JSON_EOF, FALSE).ctx
  /\ Emit("BEGIN_DOCUMENT")
  /\ GoTo("call")
  /\ UNCHANGED restOfJson

\* bfJsonInterpret on a token that opens nothing: the value cases fall
\* through to the default case, which eats the current token, whatever it is.
InterpretToken ==
  /\ control.pc = "call"
  /\ ctx.current_object \notin {BF_JSON_L_CURLY, BF_JSON_L_SQR_BOI}
  /\ events' = IF ctx.current_object \in JsonValueTokens
               THEN Append(events, "VALUE")
               ELSE events
  /\ ctx' = bfJsonEat(ctx, ctx.current_object, FALSE).ctx
  /\ GoTo("return")
  /\ UNCHANGED restOfJson

\* bfJsonInterpret, case BF_JSON_L_CURLY, up to the loop.
InterpretObject ==
  /\ control.pc = "call"
  /\ ctx.current_object = BF_JSON_L_CURLY
  /\ ctx' = bfJsonEat(ctx, BF_JSON_L_CURLY, FALSE).ctx
  /\ Emit("BEGIN_OBJECT")
  /\ control' = [pc |-> "loop", calls |-> Append(control.calls, "object")]
  /\ UNCHANGED restOfJson

\* One pass of the object loop up to the nested bfJsonInterpret, or up to
\* the longjmp of a failing bfJsonEat.
ObjectMember ==
  /\ control.pc = "loop"
  /\ InnermostCall = "object"
  /\ ~bfJsonIs(ctx, BF_JSON_R_CURLY)
  /\ LET quote == bfJsonEat(ctx, BF_JSON_QUOTE, FALSE)
         colon == bfJsonEat(quote.ctx, BF_JSON_COLON, FALSE)
     IN  IF quote.ok /\ colon.ok
         THEN /\ Emit("KEY")
              /\ ctx' = colon.ctx
              /\ GoTo("call")
         ELSE /\ events' = events \o <<"KEY", "PARSE_ERROR">>
              /\ ctx' = IF quote.ok THEN quote.ctx ELSE ctx
              /\ GoTo("returned")
  /\ UNCHANGED restOfJson

\* The object loop left: END_OBJECT, the '}' eaten, return to the caller.
ObjectEnd ==
  /\ control.pc = "loop"
  /\ InnermostCall = "object"
  /\ bfJsonIs(ctx, BF_JSON_R_CURLY)
  /\ Emit("END_OBJECT")
  /\ ctx' = bfJsonEat(ctx, BF_JSON_R_CURLY, FALSE).ctx
  /\ control' = [pc |-> "return",
                 calls |-> SubSeq(control.calls, 1, Len(control.calls) - 1)]
  /\ UNCHANGED restOfJson

\* bfJsonInterpret, case BF_JSON_L_SQR_BOI, up to the loop.
InterpretArray ==
  /\ control.pc = "call"
  /\ ctx.current_object = BF_JSON_L_SQR_BOI
  /\ ctx' = bfJsonEat(ctx, BF_JSON_L_SQR_BOI, FALSE).ctx
  /\ Emit("BEGIN_ARRAY")
  /\ control' = [pc |-> "loop", calls |-> Append(control.calls, "array")]
  /\ UNCHANGED restOfJson

\* One pass of the array loop up to the nested bfJsonInterpret.
ArrayElement ==
  /\ control.pc = "loop"
  /\ InnermostCall = "array"
  /\ ~bfJsonIs(ctx, BF_JSON_R_SQR_BOI)
  /\ GoTo("call")
  /\ UNCHANGED <<ctx, events>>
  /\ UNCHANGED restOfJson

\* The array loop left: END_ARRAY, the ']' eaten, return to the caller.
ArrayEnd ==
  /\ control.pc = "loop"
  /\ InnermostCall = "array"
  /\ bfJsonIs(ctx, BF_JSON_R_SQR_BOI)
  /\ Emit("END_ARRAY")
  /\ ctx' = bfJsonEat(ctx, BF_JSON_R_SQR_BOI, FALSE).ctx
  /\ control' = [pc |-> "return",
                 calls |-> SubSeq(control.calls, 1, Len(control.calls) - 1)]
  /\ UNCHANGED restOfJson

\* A nested bfJsonInterpret returned into a loop: the optional comma.
AfterValue ==
  /\ control.pc = "return"
  /\ control.calls # << >>
  /\ ctx' = bfJsonEat(ctx, BF_JSON_COMMA, TRUE).ctx
  /\ GoTo("loop")
  /\ UNCHANGED events
  /\ UNCHANGED restOfJson

\* The outermost bfJsonInterpret returned: END_DOCUMENT and the return of
\* bfJsonParser_fromString.
EndDocument ==
  /\ control.pc = "return"
  /\ control.calls = << >>
  /\ Emit("END_DOCUMENT")
  /\ GoTo("returned")
  /\ UNCHANGED ctx
  /\ UNCHANGED restOfJson

NextJson ==
  \/ FromString
  \/ InterpretToken
  \/ InterpretObject
  \/ ObjectMember
  \/ ObjectEnd
  \/ InterpretArray
  \/ ArrayElement
  \/ ArrayEnd
  \/ AfterValue
  \/ EndDocument

InitJsonOnly ==
  /\ InitJson
  /\ InitDenseMap
  /\ NoSizes
  /\ NoPool
  /\ NoFreeList
  /\ NoStack
  /\ NoLinear
  /\ NoHeap
  /\ NoRing
  /\ NoTable
  /\ NoTemp

\* The parser is one sequential call: it takes its next step whenever it
\* has one.
SpecJson == InitJsonOnly /\ [][NextJson]_vars /\ WF_vars(NextJson)

(***************************************************************************)
(* TempBuffer (bf_imemory_manager.hpp).  An allocator is named by a        *)
(* number; the k-th buffer handed out by allocate has the address k.       *)
(***************************************************************************)
\* The most TempBuffer objects alive at once.
MaxTempBuffers == 2
\* The most buffers allocated in one run.
MaxTempAllocations == 3
TempObjects == 1..MaxTempBuffers
TempAllocators == {1, 2}
TempSizes == {8}

TempBuffer(allocator, buffer, size) ==
  [alive |-> TRUE, m_Allocator |-> allocator, m_Buffer |-> buffer,
   m_Size |-> size]

\* An object that is not alive: before its construction, after its
\* destruction.
NoTempBuffer ==
  [alive |-> FALSE, m_Allocator |-> nullptr, m_Buffer |-> nullptr,
   m_Size |-> 0]

\* TempBuffer(TempBuffer&& rhs): [this, rhs].
TempBuffer_move(rhs) ==
  [this |-> TempBuffer(rhs.m_Allocator, rhs.m_Buffer, rhs.m_Size),
   rhs  |-> [rhs EXCEPT !.m_Allocator = nullptr, !.m_Buffer = nullptr,
                        !.m_Size = 0]]

\* operator=(TempBuffer&& rhs) for this != &rhs: [this, rhs].
TempBuffer_moveAssign(this, rhs) ==
  [this |-> [this EXCEPT !.m_Allocator = rhs.m_Allocator,
                         !.m_Buffer = rhs.m_Buffer,
                         !.m_Size = rhs.m_Size],
   rhs  |-> [rhs EXCEPT !.m_Allocator = nullptr, !.m_Buffer = nullptr,
                        !.m_Size = 0]]

\* ~TempBuffer: the deallocate calls it makes, as [allocator, ptr, size].
TempBuffer_destroy(this) ==
  IF this.m_Allocator # nullptr
  THEN <<[allocator |-> this.m_Allocator, ptr |-> this.m_Buffer,
          size |-> this.m_Size]>>
  ELSE << >>

\* The heap after the deallocate calls: each is recorded with its buffer.
RECURSIVE Deallocated(_, _)
Deallocated(h, calls) ==
  IF calls = << >>
  THEN h
  ELSE Deallocated(
         [b \in DOMAIN h |->
            IF b = Head(calls).ptr
            THEN [h[b] EXCEPT !.deallocated =
                    Append(@, [allocator |-> Head(calls).allocator,
                               size |-> Head(calls).size])]
            ELSE h[b]],
         Tail(calls))

NoTempCall == [op |-> "none", object |-> 0, deallocated |-> << >>]

InitTemp ==
  /\ temps = [o \in TempObjects |-> NoTempBuffer]
  /\ tempHeap = << >>
  /\ tempRet = NoTempCall

\* TempBuffer o(allocator, size), with an allocation that succeeds.
TempConstruct(o, allocator, size) ==
  /\ ~temps[o].alive
  /\ Len(tempHeap) < MaxTempAllocations
  /\ tempHeap' = Append(tempHeap, [allocator |-> allocator, size |-> size,
                                   deallocated |-> << >>])
  /\ temps' = [temps EXCEPT ![o] = TempBuffer(allocator, Len(tempHeap) + 1,
                                               size)]
  /\ tempRet' = [op |-> "construct", object |-> o, deallocated |-> << >>]
  /\ UNCHANGED restOfTemp

\* TempBuffer o(std::move(from)).
TempMoveConstruct(o, from) ==
  /\ ~temps[o].alive
  /\ temps[from].alive
  /\ temps' = [temps EXCEPT ![o] = TempBuffer_move(temps[from]).this,
                            ![from] = TempBuffer_move(temps[from]).rhs]
  /\ tempRet' = [op |-> "move", object |-> o, deallocated |-> << >>]
  /\ UNCHANGED tempHeap
  /\ UNCHANGED restOfTemp

\* o = std::move(from); o = std::move(o) changes nothing.
TempMoveAssign(o, from) ==
  /\ temps[o].alive
  /\ temps[from].alive
  /\ temps' = IF o # from
              THEN [temps EXCEPT
                      ![o] = TempBuffer_moveAssign(temps[o], temps[from]).this,
                      ![from] = TempBuffer_moveAssign(temps[o], temps[from]).rhs]
              ELSE temps
  /\ tempRet' = [op |-> "assign", object |-> o, deallocated |-> << >>]
  /\ UNCHANGED tempHeap
  /\ UNCHANGED restOfTemp

\* The end of o's lifetime.
TempDestroy(o) ==
  /\ temps[o].alive
  /\ tempHeap' = Deallocated(tempHeap, TempBuffer_destroy(temps[o]))
  /\ temps' = [temps EXCEPT ![o] = NoTempBuffer]
  /\ tempRet' = [op |-> "destroy", object |-> o,
                 deallocated |-> TempBuffer_destroy(temps[o])]
  /\ UNCHANGED restOfTemp

NextTemp ==
  \/ \E o \in TempObjects, allocator \in TempAllocators, size \in TempSizes :
        TempConstruct(o, allocator, size)
  \/ \E o \in TempObjects, from \in TempObjects : TempMoveConstruct(o, from)
  \/ \E o \in TempObjects, from \in TempObjects : TempMoveAssign(o, from)
  \/ \E o \in TempObjects : TempDestroy(o)

InitTempOnly ==
  /\ InitTemp
  /\ InitDenseMap
  /\ NoSizes
  /\ NoPool
  /\ NoFreeList
  /\ NoStack
  /\ NoLinear
  /\ NoHeap
  /\ NoRing
  /\ NoTable
  /\ NoJson

SpecTemp == InitTempOnly /\ [][NextTemp]_vars

(***************************************************************************)
(* Properties of the DenseMap.                                             *)
(***************************************************************************)
\* The step is a call of add (no other call lengthens the dense array).
IsAddStep ==
  /\ ret'.op = "add"
  /\ Array_size(m_DenseArray') = Array_size(m_DenseArray) + 1

\* The sparse slot of handle h, for a handle whose slot exists.
SlotOf(h) == Array_at(m_SparseIndices, AndIndexMask(h))

\* C1: the handle an add returns differs from every handle has() accepts at
\* the moment of the call, so no two valid handles are ever equal.
C1_AddReturnsFreshHandle ==
  [][IsAddStep => ret'.h \notin ValidHandles]_vars

\* An add re-used a freed slot while another handle was valid.
C1_Witness ==
  /\ ret.op = "add"
  /\ ret.h[1] = 2
  /\ Array_size(m_DenseArray) = 2

\* C2: a handle that was removed and whose sparse slot a later add re-used
\* is never accepted by has again.
C2_StaleHandleRejected ==
  kept.how = "reused" => ~has(m_SparseIndices, kept.h)

\* C3: for every handle has accepts, find returns the value passed to the
\* add that returned the handle, whatever was added, removed and relocated
\* in between.
C3_RoundTrip ==
  \A h \in HandleUniverse :
    has(m_SparseIndices, h) =>
      /\ h \in DOMAIN held
      /\ find(m_DenseArray, m_SparseIndices, h) = held[h]

\* find returned the value of an element that remove had relocated.
C3_Witness ==
  /\ ret.op = "find"
  /\ ret.v = held[ret.h]
  /\ SlotOf(ret.h).index # AndIndexMask(ret.h)

\* C4: size() equals the number of handles has accepts, and every dense
\* position holds the entry of exactly one valid handle.
C4_Density ==
  /\ Array_size(m_DenseArray) = Cardinality(ValidHandles)
  /\ \A i \in 0 .. Array_size(m_DenseArray) - 1 :
       /\ Cardinality({h \in ValidHandles : SlotOf(h).index = i}) = 1
       /\ Array_at(m_DenseArray, i).id \in ValidHandles
       /\ SlotOf(Array_at(m_DenseArray, i).id).index = i

\* A remove of the first dense entry moved the last one into its place.
C4_Witness ==
  /\ ret.op = "remove"
  /\ Array_size(m_DenseArray) = 1
  /\ AndIndexMask(Array_at(m_DenseArray, 0).id) # 0

\* C5: has(h) is true exactly for the handles add returned and the client
\* has not removed or cleared since; it is false whenever the low 16 bits
\* of h are not a position of the sparse array.
C5_HasIsExact ==
  /\ \A h \in HandleUniverse : has(m_SparseIndices, h) <=> h \in DOMAIN held
  /\ \A h \in HandleUniverse :
       AndIndexMask(h) >= Array_size(m_SparseIndices) => ~has(m_SparseIndices, h)
  /\ ret.op = "has" => (ret.b <=> ret.h \in DOMAIN held)

\* has rejected a handle whose slot position lies beyond the sparse array
\* and, in another state, a handle of an earlier generation of a live slot.
C5_Witness ==
  /\ ret.op = "has"
  /\ ~ret.b
  /\ \/ /\ Array_size(m_SparseIndices) > 0
        /\ AndIndexMask(ret.h) >= Array_size(m_SparseIndices)
     \/ /\ AndIndexMask(ret.h) < Array_size(m_SparseIndices)
        /\ SlotOf(ret.h).index # INDEX_MASK
        /\ SlotOf(ret.h).id # ret.h

\* C6: once has(h) is false for a handle add has returned, it is false in
\* every later state.
C6_InvalidationIsPermanent ==
  [][\A h \in Issued :
       ~has(m_SparseIndices, h) => ~has(m_SparseIndices', h)]_vars

\* C7: right after clear, size() is 0 and has rejects every handle.
C7_ClearInvalidatesAll ==
  ret.op = "clear" =>
    /\ Array_size(m_DenseArray) = 0
    /\ \A h \in HandleUniverse : ~has(m_SparseIndices, h)

\* clear was called on a map that held two elements.
C7_Witness ==
  /\ ret.op = "clear"
  /\ ret.v = 2
  /\ Array_size(m_DenseArray) = 0

\* The sparse positions whose slot currently has dense index size() - 1:
\* right after an add, the slot the add used.
LastAddedSlots ==
  {s \in 0 .. Array_size(m_SparseIndices) - 1 :
     Array_at(m_SparseIndices, s).index = Array_size(m_DenseArray) - 1}

\* C8: the handle add returns is (g << 16) | s in 32 bits, s the position
\* of the sparse slot used and g the number of times add has used that slot
\* since it was created; every slot's id has this form, so the first use
\* gives generation 1 and each re-use adds 0x1_0000.
C8_HandleEncoding ==
  /\ Len(uses) = Array_size(m_SparseIndices)
  /\ \A s \in 0 .. Array_size(m_SparseIndices) - 1 :
       /\ uses[s + 1] >= 1
       /\ Array_at(m_SparseIndices, s).id = <<uses[s + 1] % HalfWordModulus, s>>
  /\ ret.op = "add" =>
       \E s \in LastAddedSlots : ret.h = <<uses[s + 1] % HalfWordModulus, s>>

\* add returned the second generation of the slot at position 1.
C8_Witness ==
  /\ ret.op = "add"
  /\ ret.h = <<2, 1>>
  /\ uses[2] = 2

C11_DefaultHandleNeverValid ==
  /\ ~has(m_SparseIndices, DefaultHandle)
  /\ DefaultHandle \notin DOMAIN held
  /\ ret.op = "add" => ret.h # DefaultHandle
  /\ (ret.op = "has" /\ ret.h = DefaultHandle) => ~ret.b

\* has was asked about a default-constructed handle while the map was full.
C11_Witness ==
  /\ ret.op = "has"
  /\ ret.h = DefaultHandle
  /\ ~ret.b
  /\ Array_size(m_DenseArray) = MaxLive

\* The step is a call of remove (no other call shortens a non-empty dense
\* array by exactly one entry and reports "remove").
IsRemoveStep ==
  /\ ret'.op = "remove"
  /\ Array_size(m_DenseArray') = Array_size(m_DenseArray) - 1

\* The dense position of the valid handle g before and after the step.
DensePos(g) == Array_at(m_SparseIndices, AndIndexMask(g)).index

DensePosAfter(g) == Array_at(m_SparseIndices', AndIndexMask(g)).index

C13_IndexSpaceExhaustion ==
  /\ sizes.dense <= INDEX_MASK
  /\ sizes.sparse <= INDEX_MASK
  /\ sizes.sparse = sizes.dense + sizes.free
  /\ sizesRet.op = "add" =>
       /\ sizesRet.index = sizes.dense - 1
       /\ sizesRet.index # INDEX_MASK
       /\ sizesRet.created => sizesRet.length < INDEX_MASK
  /\ sizesRet.op = "abort" => sizes.dense = INDEX_MASK

\* add was called on a map of 65535 live elements and failed its assertion.
C13_Witness ==
  /\ sizesRet.op = "abort"
  /\ sizes = [dense |-> INDEX_MASK, sparse |-> INDEX_MASK, free |-> 0]

\* The handles has accepts after the step.
ValidHandlesAfter == {h \in HandleUniverse : has(m_SparseIndices', h)}

\* C14: an add that fails because an array cannot grow leaves the map as it
\* was: the same free-chain head, sparse slots and dense contents, and the
\* same handles accepted by has.
C14_AddIsAtomic ==
  [][ret'.op \in UndefinedOutcomes =>
       /\ m_NextSparse' = m_NextSparse
       /\ m_SparseIndices' = m_SparseIndices
       /\ m_DenseArray' = m_DenseArray
       /\ ValidHandlesAfter = ValidHandles]_vars

(***************************************************************************)
(* Properties of the fixed pool.                                           *)
(***************************************************************************)
\* C15: a pool of capacity N returns null from allocate exactly when all N
\* slots are live, and then stays as it was; every other allocate returns
\* a slot of the block that was not live.
C15_PoolExhaustion ==
  [][poolRet'.op = "allocate" =>
       /\ capacity(pool) = PoolNumElements
       /\ (poolRet'.ptr = nullptr) <=> (Cardinality(poolLive) = capacity(pool))
       /\ poolRet'.ptr = nullptr => pool' = pool /\ poolLive' = poolLive
       /\ poolRet'.ptr # nullptr =>
            /\ poolRet'.ptr \notin poolLive
            /\ poolRet'.ptr >= pool.m_MemoryBlockBegin
            /\ poolRet'.ptr + pool.T.size <= pool.m_MemoryBlockEnd
            /\ (poolRet'.ptr - pool.m_MemoryBlockBegin) % pool.m_BlockSize = 0
            /\ poolLive' = poolLive \cup {poolRet'.ptr}]_vars

\* allocate returned null with every slot of the pool live.
C15_Witness ==
  /\ poolRet.op = "allocate"
  /\ poolRet.ptr = nullptr
  /\ Cardinality(poolLive) = PoolNumElements
  /\ pool.m_PoolStart = nullptr

\* C16: allocate right after deallocate(p) returns p.
C16_PoolReusesLastFreed ==
  (poolRet.op = "allocate" /\ poolRet.prev.op = "deallocate")
    => poolRet.ptr = poolRet.prev.ptr

\* A slot of an exhausted pool was given back and handed out again at once:
\* the pool is exhausted again.
C16_Witness ==
  /\ poolRet.op = "allocate"
  /\ poolRet.prev.op = "deallocate"
  /\ poolRet.ptr = poolRet.prev.ptr
  /\ poolRet.ptr # nullptr
  /\ Cardinality(poolLive) = PoolNumElements

(***************************************************************************)
(* Properties of the free-list allocator.                                  *)
(***************************************************************************)
\* The free list of an allocator with nothing handed out.
WholeBlockNode ==
  [begin |-> freeList.m_MemoryBlockBegin,
   size  |-> MemoryManager_size(freeList) - FreeListHeaderSize]

\* C17: whenever every block handed out has been given back, in whatever
\* order, the free list is one node that spans the block, and a request for
\* the whole of it succeeds.
C17_FullCoalescing ==
  freeListLive = {} =>
    /\ freeList.m_FreeList = <<WholeBlockNode>>
    /\ FreeListAllocate_result(freeList, WholeBlockNode.size).ptr # nullptr

\* Three blocks A, B, C that lie one after the other were given back in the
\* order B, A, C, and nothing is handed out any more.
C17_Witness ==
  /\ freeListRet.op = "deallocate"
  /\ freeListLive = {}
  /\ Len(freeListRet.freed) = 3
  /\ LET B == freeListRet.freed[1]
         A == freeListRet.freed[2]
         C == freeListRet.freed[3]
     IN  /\ A.ptr + A.size + FreeListHeaderSize = B.ptr
         /\ B.ptr + B.size + FreeListHeaderSize = C.ptr
  /\ freeList.m_FreeList = <<WholeBlockNode>>

\* C18: allocate serves a request from the first node in list order that is
\* large enough, whatever fits later in the list; when no node is large
\* enough it returns null and leaves the free list as it was.
C18_FirstFit ==
  [][freeListRet'.op = "allocate" =>
       LET list == freeList.m_FreeList
           fit  == {i \in 1 .. Len(list) : list[i].size >= freeListRet'.size}
       IN  IF fit = {}
           THEN /\ freeListRet'.ptr = nullptr
                /\ freeList' = freeList
           ELSE \E i \in fit :
                  /\ \A j \in fit : i <= j
                  /\ freeListRet'.ptr = list[i].begin + FreeListHeaderSize
                  /\ \A j \in 1 .. i - 1 :
                       freeList'.m_FreeList[j] = list[j]]_vars

\* A request was served from the first fitting node although a later node
\* fitted it more tightly.
C18_Witness ==
  /\ freeListRet.op = "allocate"
  /\ freeListRet.tighter
  /\ freeListRet.ptr # nullptr
  /\ freeListRet.ptr \in freeListLive

(***************************************************************************)
(* Properties of the LIFO arena.                                           *)
(***************************************************************************)
\* The block allocated last among the live ones.
StackTop == stackLive[Len(stackLive)]

\* C19: deallocate of a live block that is not the one allocated last fails
\* its assertion and does not move the offset; only the block allocated
\* last is ever given back.
C19_OutOfOrderRejected ==
  [][stackRet'.op \in {"deallocate", "abort"} =>
       /\ (stackRet'.op = "abort") <=> (stackRet'.ptr # StackTop.ptr)
       /\ stackRet'.op = "abort" =>
            /\ stack' = stack
            /\ stackLive' = stackLive
       /\ stackRet'.op = "deallocate" =>
            stackLive' = SubSeq(stackLive, 1, Len(stackLive) - 1)]_vars

\* A then B were allocated and deallocate(A) was rejected.
C19_Witness ==
  /\ stackRet.op = "abort"
  /\ Len(stackLive) = 2
  /\ stackRet.ptr = stackLive[1].ptr
  /\ stack.m_StackPtr = stackLive[2].ptr + stackLive[2].size

RECURSIVE StackLiveBytes(_)
StackLiveBytes(live) ==
  IF live = << >> THEN 0
  ELSE stack.headers[Head(live).ptr].align_size + StackHeaderSize
         + Head(live).size + StackLiveBytes(Tail(live))

\* C20: giving back the blocks in the reverse order of their allocation
\* takes usedMemory() back, block by block, to what it was before each
\* allocation: it is always the headers, paddings and payloads of the live
\* blocks.
C20_StackRoundTrip ==
  /\ usedMemory(stack) = StackLiveBytes(stackLive)
  /\ stackRet.op = "deallocate" => usedMemory(stack) = stackRet.used
  /\ stackLive = << >> =>
       /\ usedMemory(stack) = 0
       /\ stack.m_StackPtr = stack.m_MemoryBlockBegin

\* Three blocks, one of them padded, were given back in reverse order and
\* the arena is empty again.
C20_Witness ==
  /\ stackRet.op = "deallocate"
  /\ stackRet.run = 3
  /\ stackRet.padded
  /\ stackLive = << >>
  /\ usedMemory(stack) = 0


(***************************************************************************)
(* The free chain and the two arrays of the DenseMap.                      *)
(***************************************************************************)
\* The slot positions met by following next from position pos, for at most
\* fuel steps; a position outside the sparse array ends the walk.
RECURSIVE FreeChainFrom(_, _, _)
FreeChainFrom(sparse, pos, fuel) ==
  IF pos = INDEX_MASK \/ fuel = 0 THEN << >>
  ELSE IF pos >= Array_size(sparse) THEN <<pos>>
  ELSE <<pos>> \o FreeChainFrom(sparse, Array_at(sparse, pos).next, fuel - 1)

\* The free chain, head first.  A chain with a cycle comes out longer than
\* the sparse array.
FreeChain(sparse, nextSparse) ==
  FreeChainFrom(sparse, nextSparse, Array_size(sparse) + 1)

FreeChainNow == FreeChain(m_SparseIndices, m_NextSparse)

FreeChainAfter == FreeChain(m_SparseIndices', m_NextSparse')

\* C25: remove puts the slot it frees at the head of the free chain; add
\* takes the head of the chain, which is the slot freed last, and appends a
\* new sparse slot only when the chain is empty (m_NextSparse = INDEX_MASK).
C25_ReuseOrder ==
  [][ /\ IsRemoveStep =>
           FreeChainAfter = <<AndIndexMask(ret'.h)>> \o FreeChainNow
      /\ IsAddStep =>
           IF m_NextSparse # INDEX_MASK
           THEN /\ AndIndexMask(ret'.h) = Head(FreeChainNow)
                /\ FreeChainAfter = Tail(FreeChainNow)
                /\ Array_size(m_SparseIndices') = Array_size(m_SparseIndices)
                /\ ret.op = "remove" => AndIndexMask(ret'.h) = AndIndexMask(ret.h)
           ELSE /\ FreeChainNow = << >>
                /\ AndIndexMask(ret'.h) = Array_size(m_SparseIndices)
                /\ Array_size(m_SparseIndices')
                     = Array_size(m_SparseIndices) + 1
                /\ FreeChainAfter = << >> ]_vars

\* Slot 1 was freed after slot 0 and add has just reused it, with slot 0
\* still on the chain.
C25_Witness ==
  /\ ret.op = "add"
  /\ AndIndexMask(ret.h) = 1
  /\ ret.h[1] = 2
  /\ FreeChainNow = <<0>>

\* The positions of the sparse slots whose index is the sentinel.
FreeSlots ==
  {s \in 0 .. Array_size(m_SparseIndices) - 1 :
     Array_at(m_SparseIndices, s).index = INDEX_MASK}

\* C26: between the calls, following next from m_NextSparse visits every
\* sparse slot whose index is INDEX_MASK exactly once and no other slot,
\* and ends at INDEX_MASK: a slot is free iff its index is the sentinel iff
\* it is on the free chain.
C26_FreeChainInvariant ==
  /\ \A k \in 1 .. Len(FreeChainNow) :
       FreeChainNow[k] < Array_size(m_SparseIndices)
  /\ \A j, k \in 1 .. Len(FreeChainNow) :
       j # k => FreeChainNow[j] # FreeChainNow[k]
  /\ {FreeChainNow[k] : k \in 1 .. Len(FreeChainNow)} = FreeSlots
  /\ Len(FreeChainNow) <= Array_size(m_SparseIndices)

\* Both slots are on the chain, the slot freed last first, after slot 0 was
\* used twice.
C26_Witness ==
  /\ FreeChainNow = <<0, 1>>
  /\ Array_at(m_SparseIndices, 0).id = <<2, 0>>
  /\ m_DenseArray = << >>

\* C27: for every dense position i the sparse slot at position
\* dense[i].id & INDEX_MASK has id = dense[i].id and index = i, and every
\* occupied sparse slot s has s.index < size() and dense[s.index].id = s.id.
C27_Mirror ==
  /\ \A i \in 0 .. Array_size(m_DenseArray) - 1 :
       LET pos == AndIndexMask(Array_at(m_DenseArray, i).id)
       IN  /\ pos < Array_size(m_SparseIndices)
           /\ Array_at(m_SparseIndices, pos).id = Array_at(m_DenseArray, i).id
           /\ Array_at(m_SparseIndices, pos).index = i
  /\ \A p \in 0 .. Array_size(m_SparseIndices) - 1 :
       LET s == Array_at(m_SparseIndices, p)
       IN  s.index # INDEX_MASK =>
             /\ s.index < Array_size(m_DenseArray)
             /\ Array_at(m_DenseArray, s.index).id = s.id

\* The dense array holds the element of slot 1 before the element of slot 0:
\* an entry was moved by remove and slot 0 was used again.
C27_Witness ==
  /\ Array_size(m_DenseArray) = 2
  /\ Array_at(m_DenseArray, 0).id = <<1, 1>>
  /\ Array_at(m_DenseArray, 1).id = <<2, 0>>

\* C28: find(h) and remove(h) with a handle has() does not accept (never
\* issued, already removed, or cleared) fail their assertion with the map
\* as it was; find and remove only run for a handle has() accepts.  A
\* second remove of the same handle is rejected and the slot is on the
\* free chain once.
C28_MisuseDetected ==
  [][ /\ ret'.op \in {"remove", "find"} => has(m_SparseIndices, ret'.h)
      /\ ret'.op \in AssertionFailed =>
           /\ ~has(m_SparseIndices, ret'.h)
           /\ m_DenseArray' = m_DenseArray
           /\ m_SparseIndices' = m_SparseIndices
           /\ m_NextSparse' = m_NextSparse
           /\ FreeChainAfter = FreeChainNow ]_vars

\* remove(h) was called a second time, with another element alive: the call
\* was rejected and the slot of h is on the free chain once.
C28_Witness ==
  /\ ret.op = "remove aborted"
  /\ kept = [how |-> "removed", h |-> ret.h]
  /\ FreeChainNow = <<AndIndexMask(ret.h)>>
  /\ Array_size(m_DenseArray) = 1

(***************************************************************************)
(* Properties of the bump arena.                                           *)
(***************************************************************************)
\* The bytes of the block between begin and end, end excluded.
Bytes(begin, end) == begin .. end - 1

\* C21: allocate(n) returns null and leaves the offset as it was when n
\* bytes do not fit into what is left of the block; otherwise it returns
\* block + offset and advances the offset by n.  The blocks handed out and
\* still valid are pairwise disjoint ranges inside the block, and
\* usedMemory() never exceeds the size of the block.
C21_BumpAllocate ==
  /\ linearRet.op = "allocate" =>
       IF linearRet.size > MemoryManager_size(linear) - linearRet.offset
       THEN /\ linearRet.ptr = nullptr
            /\ linear.m_MemoryOffset = linearRet.offset
       ELSE /\ linearRet.ptr = linear.m_MemoryBlockBegin + linearRet.offset
            /\ linear.m_MemoryOffset = linearRet.offset + linearRet.size
  /\ \A i \in 1 .. Len(linearLive) :
       /\ linearLive[i].ptr >= linear.m_MemoryBlockBegin
       /\ linearLive[i].ptr + linearLive[i].size <= linear.m_MemoryBlockEnd
       /\ \A j \in 1 .. Len(linearLive) :
            i # j =>
              Bytes(linearLive[i].ptr, linearLive[i].ptr + linearLive[i].size)
                \cap Bytes(linearLive[j].ptr,
                           linearLive[j].ptr + linearLive[j].size) = {}
  /\ LinearAllocator_usedMemory(linear) <= MemoryManager_size(linear)

\* An allocate that did not fit, with two earlier blocks still valid.
C21_Witness ==
  /\ linearRet.op = "allocate"
  /\ linearRet.ptr = nullptr
  /\ linearRet.offset > 0
  /\ Len(linearLive) = 2

ResizedAnArray ==
  /\ heapRet.op = "arrayResize"
  /\ heapRet.old_ptr # nullptr
  /\ heapRet.num_elements > 0

\* C23: for a non-null array and num_elements > 0, a non-null result of
\* arrayResize(old_ptr, num_elements) is an array with
\* arraySize(result) = num_elements, whether num_elements is larger than,
\* equal to or smaller than the old size.
C23_ResizeResultSize ==
  (ResizedAnArray /\ heapRet.ptr # nullptr) =>
    /\ heapRet.ptr \in DOMAIN heap
    /\ arraySize(heap, heapRet.ptr) = heapRet.num_elements

\* C24: when the allocation for the larger array fails, arrayResize returns
\* null and the old array is neither given back nor modified: its elements
\* and its recorded size are as before the call.
C24_ResizeFailure ==
  ( /\ ResizedAnArray
    /\ heapRet.num_elements > arraySize(heapRet.before, heapRet.old_ptr)
    /\ heapRet.given = nullptr ) =>
    /\ heapRet.ptr = nullptr
    /\ heapRet.old_ptr \in DOMAIN heap
    /\ heap[heapRet.old_ptr] = heapRet.before[heapRet.old_ptr]
    /\ heap = heapRet.before

\* The resize of an array of two elements, one of them written by the client,
\* to three elements failed.
C24_Witness ==
  /\ ResizedAnArray
  /\ heapRet.given = nullptr
  /\ heapRet.ptr = nullptr
  /\ heapRet.num_elements = 3
  /\ arraySize(heapRet.before, heapRet.old_ptr) = 2
  /\ heapRet.before[heapRet.old_ptr].elems = <<DefaultElement, 7>>


(***************************************************************************)
(* Invariants of the free list.                                            *)
(***************************************************************************)
\* The bytes of a block handed out: its header and its payload.
LiveBytes(ptr) ==
  Bytes(ptr - FreeListHeaderSize,
        ptr + freeList.headers[ptr - FreeListHeaderSize])

\* The bytes of a free node: its header and the size bytes after it.
NodeBytes(node) == Bytes(NodeBegin(node), NodeEnd(node))

\* C29: after any sequence of allocate and deallocate calls the free list
\* is sorted by strictly ascending node address, and every free node lies
\* inside the block and overlaps no other free node and no block handed
\* out.
C29_AddressOrdered ==
  LET list == freeList.m_FreeList
  IN  /\ \A i \in 1 .. Len(list) - 1 :
           NodeBegin(list[i]) < NodeBegin(list[i + 1])
      /\ \A i \in 1 .. Len(list) :
           /\ NodeBegin(list[i]) >= freeList.m_MemoryBlockBegin
           /\ NodeEnd(list[i]) <= freeList.m_MemoryBlockEnd
           /\ \A j \in 1 .. Len(list) :
                i # j => NodeBytes(list[i]) \cap NodeBytes(list[j]) = {}
           /\ \A ptr \in freeListLive :
                NodeBytes(list[i]) \cap LiveBytes(ptr) = {}

\* A block between two blocks still handed out was given back: the list has
\* a node before and a node after a block handed out.
C29_Witness ==
  /\ freeListRet.op = "deallocate"
  /\ Len(freeList.m_FreeList) = 3
  /\ Cardinality(freeListLive) = 2
  /\ \E ptr \in freeListLive :
       /\ NodeBegin(freeList.m_FreeList[1]) < ptr
       /\ ptr < NodeBegin(freeList.m_FreeList[2])

\* C30: after every deallocate (and every allocate) no free node ends where
\* the next node of the list begins: a block given back was merged with the
\* node before it and with the node after it when they touch it.
C30_NoAdjacentFreeNodes ==
  LET list == freeList.m_FreeList
  IN  \A i \in 1 .. Len(list) - 1 : NodeEnd(list[i]) # NodeBegin(list[i + 1])

\* The block given back last lies between two blocks given back before it,
\* touching both, while another block is still handed out: one node holds
\* all three.
C30_Witness ==
  /\ freeListRet.op = "deallocate"
  /\ freeListLive # {}
  /\ Len(freeListRet.freed) = 3
  /\ LET X == freeListRet.freed[1]
         Y == freeListRet.freed[2]
         Z == freeListRet.freed[3]
     IN  /\ X.ptr + X.size + FreeListHeaderSize = Z.ptr
         /\ Z.ptr + Z.size + FreeListHeaderSize = Y.ptr
         /\ \E i \in 1 .. Len(freeList.m_FreeList) :
              /\ NodeBegin(freeList.m_FreeList[i]) = X.ptr - FreeListHeaderSize
              /\ NodeEnd(freeList.m_FreeList[i]) >= Y.ptr + Y.size


RECURSIVE SumOver(_, _)
\* The sum of f[x] over the set S of arguments of f.
SumOver(f, S) ==
  IF S = {} THEN 0
  ELSE LET x == CHOOSE x \in S : TRUE
       IN  f[x] + SumOver(f, S \ {x})

\* The bytes taken by the free nodes and by the blocks handed out, each
\* with its header.
FreeListAccountedBytes ==
  LET list == freeList.m_FreeList
  IN  SumOver([i \in 1 .. Len(list) |-> FreeListHeaderSize + list[i].size],
              1 .. Len(list))
        + SumOver([x \in DOMAIN freeList.headers |->
                     FreeListHeaderSize + freeList.headers[x]],
                  DOMAIN freeList.headers)

\* C31: when what is left of the chosen node after size bytes and their
\* header can hold another header, allocate records exactly size in the
\* allocation header and a free remainder takes the node's place in the
\* list; otherwise the node leaves the list and the allocation header
\* records the node's whole payload size.  The free nodes and the blocks
\* handed out, with their headers, add up to the whole block.
C31_SplitPolicy ==
  [][ /\ FreeListAccountedBytes = MemoryManager_size(freeList)
      /\ FreeListAccountedBytes' = MemoryManager_size(freeList')
      /\ (freeListRet'.op = "allocate" /\ freeListRet'.ptr # nullptr) =>
           LET list   == freeList.m_FreeList
               size   == freeListRet'.size
               header == freeListRet'.ptr - FreeListHeaderSize
               i      == CHOOSE i \in 1 .. Len(list) :
                           NodeBegin(list[i]) = header
               node   == list[i]
           IN  /\ \E k \in 1 .. Len(list) : NodeBegin(list[k]) = header
               /\ IF node.size - size - FreeListHeaderSize >= 0
                  THEN /\ freeList'.headers[header] = size
                       /\ freeList'.m_FreeList =
                            [list EXCEPT ![i] =
                               [begin |-> header + FreeListHeaderSize + size,
                                size  |-> node.size - size
                                            - FreeListHeaderSize]]
                  ELSE /\ freeList'.headers[header] = node.size
                       /\ freeList'.m_FreeList = RemoveAt(list, i) ]_vars

\* A request of 8 bytes was served from a node of 12 bytes: the node was
\* consumed whole and its header records 12.
C31_Witness ==
  /\ freeListRet.op = "allocate"
  /\ freeListRet.ptr # nullptr
  /\ freeListRet.size = 8
  /\ freeList.headers[freeListRet.ptr - FreeListHeaderSize] = 12

(***************************************************************************)
(* Properties of the ring buffers.                                         *)
(***************************************************************************)
\* C32: FixedRingBuffer::push never fails: every push completes, and after
\* it the buffer holds the most recently pushed elements that were not
\* popped, at most N - 1 of them; pop returns them in push order.
C32_PushNeverFails ==
  [][ /\ ringRet'.op = "push" =>
           /\ ~ringRet'.threw
           /\ RingContents(ring') = ringGhost'
           /\ Len(ringGhost') <= ring.wrap.N - 1
           /\ ringGhost' # << >> =>
                ringGhost'[Len(ringGhost')] = ringRet'.element
      /\ (ringRet'.op = "pop" /\ ~ringRet'.threw) =>
           /\ ringGhost # << >>
           /\ ringRet'.element = Head(ringGhost) ]_vars

\* C33: size() is the number of elements pushed and not yet popped or
\* discarded, also when tail has wrapped below head, and isEmpty() is
\* size() == 0.
C33_SizeCountsElements ==
  /\ RingBufferImpl_size(ring) = SizeT(Len(ringGhost))
  /\ isEmpty(ring) <=> RingBufferImpl_size(ring) = SizeT(0)

\* C34: RingBuffer::push on a full buffer doubles the capacity and leaves
\* the elements stored before, in their order, followed by the new one.
C34_GrowthKeepsContents ==
  [][ (ringRet'.op = "push" /\ isFull(ring)) =>
        /\ ~ringRet'.threw
        /\ RingBuffer_capacity(ring') = 2 * RingBuffer_capacity(ring)
        /\ RingContents(ring') =
             Append(RingContents(ring), ringRet'.element) ]_vars

(***************************************************************************)
(* Properties of the hash table.                                           *)
(***************************************************************************)
\* C35: a key that was inserted and not removed since is found by
\* has/get/find, also after other keys were removed.
C35_LookupSurvivesRemovals ==
  (tableRet.op = "has" /\ tableRet.key \in tableKeys) => tableRet.result

(***************************************************************************)
(* Properties of the JSON reader.                                          *)
(***************************************************************************)
\* C36: for every source, bfJsonParser_fromString eventually returns, with
\* BEGIN_DOCUMENT as its first event and END_DOCUMENT or PARSE_ERROR as its
\* last.
C36_ParserReturns ==
  <>( /\ control.pc = "returned"
      /\ events # << >>
      /\ events[1] = "BEGIN_DOCUMENT"
      /\ events[Len(events)] \in {"END_DOCUMENT", "PARSE_ERROR"} )

(***************************************************************************)
(* Properties of TempBuffer.                                               *)
(***************************************************************************)
\* C37: every buffer a TempBuffer owns is deallocated through its allocator
\* exactly once: never twice, and never leaked (a buffer not yet
\* deallocated is held by a TempBuffer that is alive); the destructor of a
\* moved-from TempBuffer deallocates nothing.
C37_DeallocatedExactlyOnce ==
  /\ \A b \in 1..Len(tempHeap) :
       /\ Len(tempHeap[b].deallocated) <= 1
       /\ tempHeap[b].deallocated # << >> =>
            tempHeap[b].deallocated[1] =
              [allocator |-> tempHeap[b].allocator, size |-> tempHeap[b].size]
       /\ tempHeap[b].deallocated = << >> =>
            \E o \in TempObjects :
              /\ temps[o].alive
              /\ temps[o].m_Buffer = b
              /\ temps[o].m_Allocator = tempHeap[b].allocator
  /\ \A o \in TempObjects :
       (temps[o].alive /\ temps[o].m_Allocator = nullptr) =>
         TempBuffer_destroy(temps[o]) = << >>

=============================================================================
